---- MODULE Spec2Model ----
(***************************************************************************)
(* Model of the QuickBooks integration of the accounting dashboard:        *)
(*   - the period bucketer (generatePeriods, formatDate) of                *)
(*     src/lib/quickbooks-multi.ts and the period key of the               *)
(*     marketer-profitability route (getPeriodKey);                        *)
(*   - the token store (storeTokens, getValidTokens, refreshAccessToken,   *)
(*     disconnect), the authenticated request (qbRequest) and the OAuth    *)
(*     callback, with every await as a step boundary.                      *)
(***************************************************************************)
EXTENDS Integers, Sequences, FiniteSets, TLC

VARIABLES
    gpStart,      \* generatePeriods: the startDate argument ("YYYY-MM-DD" as <<y, m, d>>)
    gpEnd,        \* generatePeriods: the endDate argument
    gpGran,       \* generatePeriods: the granularity argument
    gpTz,         \* offset of the process's local time zone from UTC, in hours
    gpPeriods,    \* the array returned by generatePeriods
    gpDone,       \* TRUE once generatePeriods has returned
    now,          \* Date.now(), in milliseconds
    store,        \* the rows of table amy_quickbooks_tokens
    valid,        \* the refresh tokens the token endpoint accepts
    nextTok,      \* number of the next token pair the token endpoint issues
    calls,        \* the qbRequest calls in flight, each at its await
    cb,           \* the OAuth callback request in flight
    disconnected, \* history: disconnect(location) returned and no callback stored since
    exReport,     \* getRevenueSummary: the report tree qbRequest returned
    exRevenue,    \* what extractRevenueFromReport(report) ended with
    exCogs,       \* what extractCOGSFromReport(report) ended with
    exDone,       \* TRUE once both extractors have returned
    qbCache,      \* the Map qbCache of the marketer-profitability route
    req,          \* the GET request of the route in flight, at its await
    resp,         \* the response to it
    lastGet,      \* history: the last call of getCachedQBData and the one before
    lastSet,      \* history: the last call of setCachedQBData and the Map before it
    arItems,      \* getRevenueAllLocations: the revenue each location's fetch returns, in cents
    arResults,    \* getRevenueAllLocations: the keys of `results`, in insertion order
    arByPeriod,   \* the route: the revenue of aggregatedByPeriod for the period
    rvQuery,      \* revenue endpoint: the query parameters of the GET request
    rvPc,         \* revenue endpoint: the await the handler is at
    rvReads,      \* revenue endpoint: selects of the token table issued for the request
    rvCalls,      \* revenue endpoint: report requests sent for the request
    rvStatus,     \* revenue endpoint: the status of the response, 0 before it
    stReq,        \* status endpoint: the GET request in flight, at its await
    stResp,       \* status endpoint: the response to it
    mwReq,        \* middleware: the request it runs for, at its await
    mwResp,       \* middleware: what it returned ("" before it returns)
    authUsers,    \* the users of Supabase Auth
    profiles,     \* the rows of table user_profiles
    cu            \* the createUser call in flight, at its await, and the calls so far

periodVars == <<gpStart, gpEnd, gpGran, gpTz, gpPeriods, gpDone>>

tokenVars == <<now, store, valid, nextTok, calls, cb, disconnected>>

extractVars == <<exReport, exRevenue, exCogs, exDone>>

vars == <<gpStart, gpEnd, gpGran, gpTz, gpPeriods, gpDone,
          now, store, valid, nextTok, calls, cb, disconnected,
          exReport, exRevenue, exCogs, exDone,
          qbCache, req, resp, lastGet, lastSet,
          arItems, arResults, arByPeriod,
          rvQuery, rvPc, rvReads, rvCalls, rvStatus,
          stReq, stResp, mwReq, mwResp,
          authUsers, profiles, cu>>

routeVars == <<qbCache, req, resp, lastGet, lastSet>>

sumVars == <<arItems, arResults, arByPeriod>>

revVars == <<rvQuery, rvPc, rvReads, rvCalls, rvStatus>>

statusVars == <<stReq, stResp>>

gateVars == <<mwReq, mwResp>>

userVars == <<authUsers, profiles, cu>>

moreVars == <<sumVars, revVars, statusVars, gateVars, userVars>>

----------------------------------------------------------------------------
(* Calendar arithmetic of the JavaScript Date object.  A Date is a number  *)
(* of hours since 00:00 UTC of 1 January BaseYear.                         *)

BaseYear == 1970

MinYear == 2023
MaxYear == 2024

Granularities == {"monthly", "quarterly", "yearly"}

TzOffsets == {-5, 0, 1}

IsLeap(y) == (y % 4 = 0 /\ y % 100 # 0) \/ y % 400 = 0

\* number of leap years in 1..y
LeapsUpTo(y) == (y \div 4) - (y \div 100) + (y \div 400)

DaysInMonth(y, m0) ==
    IF m0 = 1 THEN (IF IsLeap(y) THEN 29 ELSE 28)
    ELSE IF m0 \in {3, 5, 8, 10} THEN 30 ELSE 31

\* days of the year before the first day of month m0 (0-based)
DaysBeforeMonth(y, m0) ==
    LET cum == <<0, 31, 59, 90, 120, 151, 181, 212, 243, 273, 304, 334>>
    IN  cum[m0 + 1] + (IF m0 >= 2 /\ IsLeap(y) THEN 1 ELSE 0)

DaysBeforeYear(y) ==
    365 * (y - BaseYear) + LeapsUpTo(y - 1) - LeapsUpTo(BaseYear - 1)

\* day number of the civil date y-(m0+1)-d; month and day may overflow as in
\* the Date constructor (month 12 is January of the next year, day 0 is the
\* last day of the previous month)
DayNumber(y, m0, d) ==
    LET yy == y + (m0 \div 12)
        mm == m0 % 12
    IN  DaysBeforeYear(yy) + DaysBeforeMonth(yy, mm) + (d - 1)

\* the civil date <<y, m0, d>> of a day number
CivilOfDay(n) ==
    LET y  == CHOOSE yy \in (MinYear - 1)..(MaxYear + 2) :
                  DaysBeforeYear(yy) <= n /\ n < DaysBeforeYear(yy + 1)
        m0 == CHOOSE mm \in 0..11 :
                  /\ DayNumber(y, mm, 1) <= n
                  /\ n < DayNumber(y, mm, 1) + DaysInMonth(y, mm)
    IN  <<y, m0, n - DayNumber(y, m0, 1) + 1>>

\* new Date("YYYY-MM-DD"): a date-only string is midnight UTC
DateParse(s) == 24 * DayNumber(s[1], s[2] - 1, s[3])

\* new Date(year, monthIndex, day): midnight local time
DateLocal(tz, y, m0, d) == 24 * DayNumber(y, m0, d) - tz

\* the local calendar day a Date falls on
LocalDay(tz, t) == (t + tz) \div 24

getFullYear(tz, t) == CivilOfDay(LocalDay(tz, t))[1]
getMonth(tz, t)    == CivilOfDay(LocalDay(tz, t))[2]
getDate(tz, t)     == CivilOfDay(LocalDay(tz, t))[3]

\* formatDate: the local date as "YYYY-MM-DD", kept as <<y, m, d>>, m 1-based
formatDate(tz, t) ==
    LET c == CivilOfDay(LocalDay(tz, t))
    IN  <<c[1], c[2] + 1, c[3]>>

\* the three label formats: `${year}`, `${year}-Q${q}`, `${year}-${mm}`
YearLabel(y)       == <<"Y", y>>
QuarterLabel(y, q) == <<"Q", y, q>>
MonthLabel(y, m)   == <<"M", y, m>>

\* one iteration of the while loop of generatePeriods, from the value of
\* `current` at the top of the loop body: the natural end of the unit, the
\* label and the advanced `current`
PeriodStep(tz, gran, current) ==
    LET local == CivilOfDay(LocalDay(tz, current))
        year == local[1]
        month == local[2]
        quarter == month \div 3
        quarterMonth == quarter * 3
    IN  IF gran = "yearly"
        THEN [periodEnd |-> DateLocal(tz, year, 11, 31),
              label     |-> YearLabel(year),
              current   |-> DateLocal(tz, year + 1, 0, 1)]
        ELSE IF gran = "quarterly"
        THEN [periodEnd |-> DateLocal(tz, year, quarterMonth + 3, 0),
              label     |-> QuarterLabel(year, quarter + 1),
              current   |-> DateLocal(tz, year, quarterMonth + 3, 1)]
        ELSE [periodEnd |-> DateLocal(tz, year, month + 1, 0),
              label     |-> MonthLabel(year, month + 1),
              current   |-> DateLocal(tz, year, month + 1, 1)]

\* start: formatDate(current < start ? start : current), evaluated after
\* `current` was advanced by the branch above
PushedStart(start, current) == IF current < start THEN start ELSE current

RECURSIVE PeriodLoop(_, _, _, _, _, _)
PeriodLoop(tz, gran, start, end, current, periods) ==
    IF ~(current <= end) THEN periods
    ELSE LET st == PeriodStep(tz, gran, current)
             periodEnd == IF st.periodEnd > end THEN end ELSE st.periodEnd
             pushed == Append(periods,
                          [start |-> formatDate(tz, PushedStart(start, st.current)),
                           end   |-> formatDate(tz, periodEnd),
                           label |-> st.label])
         IN  IF periodEnd >= end THEN pushed
             ELSE PeriodLoop(tz, gran, start, end, st.current, pushed)

generatePeriods(tz, startDate, endDate, gran) ==
    LET start == DateParse(startDate)
        end   == DateParse(endDate)
    IN  PeriodLoop(tz, gran, start, end, start, <<>>)

\* getPeriodKey of the marketer-profitability route; month is 1-based
getPeriodKey(year, month, gran) ==
    IF gran = "yearly" THEN YearLabel(year)
    ELSE IF gran = "quarterly" THEN QuarterLabel(year, (month + 2) \div 3)
    ELSE MonthLabel(year, month)

----------------------------------------------------------------------------
(* JavaScript values of the report tree.  A property that may be undefined *)
(* is a sequence of length 0 (undefined) or 1; a string is the sequence of *)
(* its characters; a number is an exact fraction or NaN.                   *)

None == <<>>
Some(x) == <<x>>
Has(o) == o # <<>>

RECURSIVE Gcd(_, _)
Gcd(a, b) == IF b = 0 THEN a ELSE Gcd(b, a % b)

Abs(n) == IF n < 0 THEN -n ELSE n

NaN == [nan |-> TRUE, num |-> 0, den |-> 1]

\* the number num/den (den > 0) in lowest terms
Frac(num, den) ==
    LET g == Gcd(Abs(num), den)
    IN  [nan |-> FALSE, num |-> num \div g, den |-> den \div g]

Num(n) == Frac(n, 1)

\* a + b, a - b, a * b and a / b (b not 0) of JavaScript numbers
JsAdd(a, b) ==
    IF a.nan \/ b.nan THEN NaN
    ELSE Frac(a.num * b.den + b.num * a.den, a.den * b.den)

JsSub(a, b) ==
    IF a.nan \/ b.nan THEN NaN
    ELSE Frac(a.num * b.den - b.num * a.den, a.den * b.den)

JsMul(a, b) ==
    IF a.nan \/ b.nan THEN NaN
    ELSE Frac(a.num * b.num, a.den * b.den)

JsDiv(a, b) ==
    IF a.nan \/ b.nan THEN NaN
    ELSE IF b.num < 0 THEN Frac(-(a.num * b.den), a.den * (-b.num))
    ELSE Frac(a.num * b.den, a.den * b.num)

\* a !== 0 and a === b of JavaScript numbers (NaN equals nothing)
JsNonZero(a) == a.nan \/ a.num # 0
JsEq(a, b) == ~a.nan /\ ~b.nan /\ a = b

DigitChars == {"0", "1", "2", "3", "4", "5", "6", "7", "8", "9"}

DigitVal(c) ==
    CASE c = "0" -> 0 [] c = "1" -> 1 [] c = "2" -> 2 [] c = "3" -> 3
      [] c = "4" -> 4 [] c = "5" -> 5 [] c = "6" -> 6 [] c = "7" -> 7
      [] c = "8" -> 8 [] c = "9" -> 9

\* the number of digits of s from position i on
RECURSIVE DigitRun(_, _)
DigitRun(s, i) ==
    IF i <= Len(s) /\ s[i] \in DigitChars THEN 1 + DigitRun(s, i + 1) ELSE 0

\* the decimal value of the digits s[i .. i + n - 1]
RECURSIVE DigitsValue(_, _, _)
DigitsValue(s, i, n) ==
    IF n = 0 THEN 0
    ELSE 10 * DigitsValue(s, i, n - 1) + DigitVal(s[i + n - 1])

RECURSIVE Pow10(_)
Pow10(n) == IF n = 0 THEN 1 ELSE 10 * Pow10(n - 1)

RECURSIVE SkipSpaces(_, _)
SkipSpaces(s, i) ==
    IF i <= Len(s) /\ s[i] = " " THEN SkipSpaces(s, i + 1) ELSE i

\* parseFloat(s): leading white space, a sign, digits, a point and digits;
\* what follows the longest such prefix is ignored, NaN when it has no digit
parseFloat(s) ==
    LET p == SkipSpaces(s, 1)
        signed == p <= Len(s) /\ s[p] \in {"-", "+"}
        negative == signed /\ s[p] = "-"
        q == IF signed THEN p + 1 ELSE p
        ni == DigitRun(s, q)
        point == q + ni <= Len(s) /\ s[q + ni] = "."
        nf == IF point THEN DigitRun(s, q + ni + 1) ELSE 0
        magnitude == DigitsValue(s, q, ni) * Pow10(nf)
                        + DigitsValue(s, q + ni + 1, nf)
    IN  IF ni + nf = 0 THEN NaN
        ELSE Frac(IF negative THEN -magnitude ELSE magnitude, Pow10(nf))

\* String.prototype.includes
Includes(s, sub) ==
    \E i \in 0..(Len(s) - Len(sub)) : SubSeq(s, i + 1, i + Len(sub)) = sub

\* the literals of the extractor
STR_Income == <<"I", "n", "c", "o", "m", "e">>
STR_Revenue == <<"R", "e", "v", "e", "n", "u", "e">>
STR_CostOfGoodsSold ==
    <<"C", "o", "s", "t", " ", "o", "f", " ", "G", "o", "o", "d", "s", " ",
      "S", "o", "l", "d">>
STR_Zero == <<"0">>

\* row.Header?.ColData?.[0]?.value
HeaderValue(row) ==
    IF ~Has(row.Header) THEN None
    ELSE IF ~Has(row.Header[1].ColData) THEN None
    ELSE IF Len(row.Header[1].ColData[1]) = 0 THEN None
    ELSE row.Header[1].ColData[1][1].value

\* value?.includes(sub), as a condition
ValueIncludes(value, sub) == Has(value) /\ Includes(value[1], sub)

\* the predicate of rows.find in extractRevenueFromReport
IsIncomeSection(row) ==
    \/ row.group = Some("Income")
    \/ ValueIncludes(HeaderValue(row), STR_Income)
    \/ ValueIncludes(HeaderValue(row), STR_Revenue)

\* the predicate of rows.find in extractCOGSFromReport
IsCOGSSection(row) ==
    \/ row.group = Some("COGS")
    \/ ValueIncludes(HeaderValue(row), STR_CostOfGoodsSold)

\* report?.Rows?.Row || []
RowsOfReport(report) ==
    IF ~Has(report) THEN <<>>
    ELSE IF ~Has(report[1].Rows) THEN <<>>
    ELSE IF ~Has(report[1].Rows[1].Row) THEN <<>>
    ELSE report[1].Rows[1].Row[1]

\* what a call of an extractor ends with: `threw` tells an exception that
\* reaches the caller from a returned number
Returned(n) == [threw |-> FALSE, value |-> n]

\* extractRevenueFromReport: the first row that is the income section; the
\* last column of its Summary row, parsed, '0' standing for a value that is
\* undefined or empty.  An exception of the body is caught and answered by 0.
extractRevenueFromReport_NoDefault(report) ==
    LET rows == RowsOfReport(report)
        matches == {i \in 1..Len(rows) : IsIncomeSection(rows[i])}
        body ==
            IF matches = {} THEN Returned(Num(0))
            ELSE LET incomeSection ==
                         rows[CHOOSE i \in matches : \A j \in matches : i <= j]
                     summaryRow == incomeSection.Summary
                 IN  IF Has(summaryRow) /\ Has(summaryRow[1].ColData)
                     THEN LET ColData == summaryRow[1].ColData[1]
                              totalCol == IF Len(ColData) = 0 THEN None
                                          ELSE Some(ColData[Len(ColData)])
                              value == IF Has(totalCol) THEN totalCol[1].value
                                       ELSE None
                          IN  Returned(IF Has(value) THEN parseFloat(value[1])
                                       ELSE NaN)
                     ELSE Returned(NaN)
    IN  IF body.threw THEN Returned(Num(0)) ELSE body

extractRevenueFromReport(report) ==
    LET rows == RowsOfReport(report)
        matches == {i \in 1..Len(rows) : IsIncomeSection(rows[i])}
        body ==
            IF matches = {} THEN Returned(Num(0))
            ELSE LET incomeSection ==
                         rows[CHOOSE i \in matches : \A j \in matches : i <= j]
                     summaryRow == incomeSection.Summary
                 IN  IF Has(summaryRow) /\ Has(summaryRow[1].ColData)
                     THEN LET ColData == summaryRow[1].ColData[1]
                              totalCol == IF Len(ColData) = 0 THEN None
                                          ELSE Some(ColData[Len(ColData)])
                              value == IF Has(totalCol) THEN totalCol[1].value
                                       ELSE None
                          IN  Returned(parseFloat(
                                  IF Has(value) /\ value[1] # <<>>
                                  THEN value[1] ELSE STR_Zero))
                     ELSE Returned(Num(0))
    IN  IF body.threw THEN Returned(Num(0)) ELSE body

\* extractCOGSFromReport reading the first column of the last matching row
extractCOGSFromReport_LastRowFirstColumn(report) ==
    LET rows == RowsOfReport(report)
        matches == {i \in 1..Len(rows) : IsCOGSSection(rows[i])}
        body ==
            IF matches = {} THEN Returned(Num(0))
            ELSE LET cogsSection ==
                         rows[CHOOSE i \in matches : \A j \in matches : i >= j]
                     summaryRow == cogsSection.Summary
                 IN  IF Has(summaryRow) /\ Has(summaryRow[1].ColData)
                     THEN LET ColData == summaryRow[1].ColData[1]
                              totalCol == IF Len(ColData) = 0 THEN None
                                          ELSE Some(ColData[1])
                              value == IF Has(totalCol) THEN totalCol[1].value
                                       ELSE None
                          IN  Returned(parseFloat(
                                  IF Has(value) /\ value[1] # <<>>
                                  THEN value[1] ELSE STR_Zero))
                     ELSE Returned(Num(0))
    IN  IF body.threw THEN Returned(Num(0)) ELSE body

\* extractCOGSFromReport: the same for the first row that is the cost of
\* goods sold section
extractCOGSFromReport(report) ==
    LET rows == RowsOfReport(report)
        matches == {i \in 1..Len(rows) : IsCOGSSection(rows[i])}
        body ==
            IF matches = {} THEN Returned(Num(0))
            ELSE LET cogsSection ==
                         rows[CHOOSE i \in matches : \A j \in matches : i <= j]
                     summaryRow == cogsSection.Summary
                 IN  IF Has(summaryRow) /\ Has(summaryRow[1].ColData)
                     THEN LET ColData == summaryRow[1].ColData[1]
                              totalCol == IF Len(ColData) = 0 THEN None
                                          ELSE Some(ColData[Len(ColData)])
                              value == IF Has(totalCol) THEN totalCol[1].value
                                       ELSE None
                          IN  Returned(parseFloat(
                                  IF Has(value) /\ value[1] # <<>>
                                  THEN value[1] ELSE STR_Zero))
                     ELSE Returned(Num(0))
    IN  IF body.threw THEN Returned(Num(0)) ELSE body

\* the texts of the report trees of the model
TXT_Total == <<"T", "o", "t", "a", "l">>
TXT_1500 == <<"1", "5", "0", "0", ".", "0", "0">>
TXT_250_5 == <<"2", "5", "0", ".", "5">>
TXT_Minus20 == <<"-", "2", "0", ".", "0", "0">>
TXT_OtherIncome == <<"O", "t", "h", "e", "r", " ">> \o STR_Income
TXT_TotalRevenue == TXT_Total \o <<" ">> \o STR_Revenue
TXT_Expenses == <<"E", "x", "p", "e", "n", "s", "e", "s">>
TXT_income == <<"i", "n", "c", "o", "m", "e">>

Col(text) == [value |-> Some(text)]
ColNoValue == [value |-> None]
WithColData(cols) == Some([ColData |-> Some(cols)])
NoColData == Some([ColData |-> None])

\* the Summary property of a row: undefined, without ColData, with an empty
\* ColData, or with a label and a total
Summaries ==
    {None, NoColData, WithColData(<<>>),
     WithColData(<<Col(TXT_Total), Col(TXT_1500)>>),
     WithColData(<<Col(TXT_Total), Col(TXT_1500), Col(TXT_250_5)>>),
     WithColData(<<Col(TXT_Total), Col(TXT_Minus20)>>),
     WithColData(<<Col(TXT_Total), Col(<<>>)>>),
     WithColData(<<Col(TXT_Total), ColNoValue>>)}

\* the Header property of a row
Headers ==
    {NoColData, WithColData(<<>>), WithColData(<<ColNoValue>>),
     WithColData(<<Col(STR_Income)>>),
     WithColData(<<Col(TXT_OtherIncome)>>),
     WithColData(<<Col(TXT_TotalRevenue)>>),
     WithColData(<<Col(STR_CostOfGoodsSold)>>),
     WithColData(<<Col(TXT_Expenses)>>),
     WithColData(<<Col(TXT_income)>>)}

Groups == {None, Some("Income"), Some("COGS"), Some("Expenses")}

\* the summaries of the rows that are found by their header
HeaderRowSummaries ==
    {None, WithColData(<<Col(TXT_Total), Col(TXT_250_5)>>),
     WithColData(<<Col(TXT_Total), Col(TXT_Minus20)>>)}

\* the rows of the model: found by their group, or by their header, and one
\* row with the group of one section under the header of the other
ReportRows ==
    {[group |-> g, Header |-> None, Summary |-> s] : g \in Groups, s \in Summaries}
    \cup {[group |-> None, Header |-> h, Summary |-> s] :
             h \in Headers, s \in HeaderRowSummaries}
    \cup {[group |-> Some("COGS"), Header |-> WithColData(<<Col(STR_Income)>>),
           Summary |-> WithColData(<<Col(TXT_Total), Col(TXT_1500)>>)]}

MaxRows == 2

RowLists == UNION {[1..n -> ReportRows] : n \in 0..MaxRows}

\* the report trees: null, without Rows, without Rows.Row, and with a list
\* of up to MaxRows rows
Reports ==
    {None, Some([Rows |-> None]), Some([Rows |-> Some([Row |-> None])])}
    \cup {Some([Rows |-> Some([Row |-> Some(rows)])]) : rows \in RowLists}

NotExtracted == [threw |-> FALSE, value |-> NaN]

ExtractIdle ==
    /\ exReport = None
    /\ exRevenue = NotExtracted
    /\ exCogs = NotExtracted
    /\ exDone = FALSE

----------------------------------------------------------------------------
(* The response cache of the marketer-profitability route.  The Map is a   *)
(* function from the keys it holds to their entries.                       *)

CACHE_TTL_MS == 60 * 60 * 1000

\* the size above which setCachedQBData sweeps the expired entries
CACHE_SWEEP_SIZE == 50

EmptyCache == <<>>

\* `${location || 'all'}:${startDate}:${endDate}:${granularity}`; location is
\* null (None) or a string, the empty string and null give 'all'
getCacheKey(location, startDate, endDate, granularity) ==
    <<IF Has(location) /\ location[1] # "" THEN location[1] ELSE "all",
      startDate, endDate, granularity>>

\* the Map without key
CacheDelete(cache, key) == [k \in DOMAIN cache \ {key} |-> cache[k]]

\* getCachedQBData serving an entry whatever its age
getCachedQBData_NoExpiry(cache, key, t) ==
    IF key \notin DOMAIN cache THEN [data |-> None, cache |-> cache]
    ELSE [data |-> Some(cache[key].data), cache |-> cache]

\* getCachedQBData deleting the entry it has served
getCachedQBData_DeleteOnHit(cache, key, t) ==
    IF key \notin DOMAIN cache THEN [data |-> None, cache |-> cache]
    ELSE IF t - cache[key].timestamp > CACHE_TTL_MS
    THEN [data |-> None, cache |-> CacheDelete(cache, key)]
    ELSE [data |-> Some(cache[key].data), cache |-> CacheDelete(cache, key)]

\* getCachedQBData(key) at time t: the value returned (None for null) and
\* the Map it leaves
getCachedQBData(cache, key, t) ==
    IF key \notin DOMAIN cache THEN [data |-> None, cache |-> cache]
    ELSE IF t - cache[key].timestamp > CACHE_TTL_MS
    THEN [data |-> None, cache |-> CacheDelete(cache, key)]
    ELSE [data |-> Some(cache[key].data), cache |-> cache]

\* cleanExpiredCache() at time t
cleanExpiredCache(cache, t) ==
    LET kept == {k \in DOMAIN cache : ~(t - cache[k].timestamp > CACHE_TTL_MS)}
    IN  [k \in kept |-> cache[k]]

\* setCachedQBData sweeping as soon as the Map holds 50 entries
setCachedQBData_SweepAtFifty(cache, key, data, t) ==
    LET entry == [data |-> data, timestamp |-> t]
        set == [k \in DOMAIN cache \cup {key} |->
                   IF k = key THEN entry ELSE cache[k]]
    IN  IF Cardinality(DOMAIN set) >= CACHE_SWEEP_SIZE
        THEN cleanExpiredCache(set, t)
        ELSE set

\* setCachedQBData(key, data) at time t
setCachedQBData(cache, key, data, t) ==
    LET entry == [data |-> data, timestamp |-> t]
        set == [k \in DOMAIN cache \cup {key} |->
                   IF k = key THEN entry ELSE cache[k]]
    IN  IF Cardinality(DOMAIN set) > CACHE_SWEEP_SIZE
        THEN cleanExpiredCache(set, t)
        ELSE set

----------------------------------------------------------------------------
(* The internal ledger and the period groups of the route                  *)

\* the rows of amy_marketer_monthly (the columns the reconciliation reads)
LedgerTable ==
    {[year |-> 2024, month |-> 1, location |-> "MedRock FL",
      marketer_name |-> "Ann", total_pt_paid |-> 10000],
     [year |-> 2024, month |-> 2, location |-> "MedRock FL",
      marketer_name |-> "Ann", total_pt_paid |-> 4000],
     [year |-> 2024, month |-> 2, location |-> "MedRock TN",
      marketer_name |-> "Bob", total_pt_paid |-> 2500],
     [year |-> 2024, month |-> 2, location |-> "MedRock TX",
      marketer_name |-> "Ann", total_pt_paid |-> 500],
     [year |-> 2024, month |-> 4, location |-> "MedRock TN",
      marketer_name |-> "Bob", total_pt_paid |-> 1500],
     [year |-> 2023, month |-> 12, location |-> "MedRock TX",
      marketer_name |-> "Bob", total_pt_paid |-> 700]}

\* the filters of the query: location (unless null or 'all'), startDate and
\* endDate by year and month
QueryFilter(row, location, startDate, endDate) ==
    /\ (Has(location) /\ location[1] # "" /\ location[1] # "all")
           => row.location = location[1]
    /\ \/ row.year > startDate[1]
       \/ row.year = startDate[1] /\ row.month >= startDate[2]
    /\ \/ row.year < endDate[1]
       \/ row.year = endDate[1] /\ row.month <= endDate[2]

\* .order('year', desc).order('month', desc): the rows of a set as a list
RECURSIVE OrderRows(_)
OrderRows(rows) ==
    IF rows = {} THEN <<>>
    ELSE LET first == CHOOSE r \in rows : \A q \in rows :
                          \/ r.year > q.year
                          \/ r.year = q.year /\ r.month >= q.month
         IN  <<first>> \o OrderRows(rows \ {first})

Query(location, startDate, endDate) ==
    OrderRows({row \in LedgerTable : QueryFilter(row, location, startDate, endDate)})

\* aggregateByMarketer(rows, granularity, false): a Map from
\* `${period}|${marketer_name}` to the sums, as the list of its values in
\* insertion order
RECURSIVE AggregateRows(_, _, _)
AggregateRows(rows, granularity, aggregates) ==
    IF rows = <<>> THEN aggregates
    ELSE LET row == Head(rows)
             period == getPeriodKey(row.year, row.month, granularity)
             at == {i \in 1..Len(aggregates) :
                       /\ aggregates[i].period = period
                       /\ aggregates[i].marketer_name = row.marketer_name}
             added == Num(row.total_pt_paid)
         IN  AggregateRows(Tail(rows), granularity,
                IF at = {}
                THEN Append(aggregates,
                        [period |-> period, marketer_name |-> row.marketer_name,
                         total_pt_paid |-> JsAdd(Num(0), added)])
                ELSE [i \in 1..Len(aggregates) |->
                        IF i \in at
                        THEN [aggregates[i] EXCEPT
                                 !.total_pt_paid = JsAdd(@, added)]
                        ELSE aggregates[i]])

aggregateByMarketer(rows, granularity) == AggregateRows(rows, granularity, <<>>)

\* byPeriod: the periods of the marketer data in insertion order, each with
\* the total of its marketers (marketers.reduce)
RECURSIVE GroupByPeriod(_, _)
GroupByPeriod(marketerData, byPeriod) ==
    IF marketerData = <<>> THEN byPeriod
    ELSE LET data == Head(marketerData)
             at == {i \in 1..Len(byPeriod) : byPeriod[i].period = data.period}
         IN  GroupByPeriod(Tail(marketerData),
                IF at = {}
                THEN Append(byPeriod,
                        [period |-> data.period,
                         totals |-> [total_pt_paid |->
                                        JsAdd(Num(0), data.total_pt_paid)]])
                ELSE [i \in 1..Len(byPeriod) |->
                        IF i \in at
                        THEN [byPeriod[i] EXCEPT
                                 !.totals.total_pt_paid = JsAdd(@, data.total_pt_paid)]
                        ELSE byPeriod[i]])

\* the characters of a number written with at least `width` digits
RECURSIVE DigitsOf(_, _)
DigitsOf(n, width) ==
    IF n < 10 /\ width <= 1 THEN <<n>>
    ELSE Append(DigitsOf(n \div 10, width - 1), n % 10)

\* the text of a label, each character by its rank in the collation: '-'
\* before the digits, the digits before 'Q'
RankHyphen == 0
RankDigit(d) == 1 + d
RankQ == 11

LabelText(label) ==
    LET year == [i \in 1..Len(DigitsOf(label[2], 1)) |->
                    RankDigit(DigitsOf(label[2], 1)[i])]
    IN  IF label[1] = "Y" THEN year
        ELSE IF label[1] = "Q"
        THEN year \o <<RankHyphen, RankQ>>
                  \o [i \in 1..Len(DigitsOf(label[3], 1)) |->
                         RankDigit(DigitsOf(label[3], 1)[i])]
        ELSE year \o <<RankHyphen>>
                  \o [i \in 1..2 |-> RankDigit(DigitsOf(label[3], 2)[i])]

\* a.localeCompare(b) < 0 on the texts of two labels
RECURSIVE TextBefore(_, _)
TextBefore(a, b) ==
    IF b = <<>> THEN FALSE
    ELSE IF a = <<>> THEN TRUE
    ELSE IF Head(a) # Head(b) THEN Head(a) < Head(b)
    ELSE TextBefore(Tail(a), Tail(b))

\* .sort((a, b) => b[0].localeCompare(a[0])): insertion of entry into a list
\* that is sorted with the greatest label first
RECURSIVE InsertDescending(_, _)
InsertDescending(sorted, entry) ==
    IF sorted = <<>> THEN <<entry>>
    ELSE IF TextBefore(LabelText(Head(sorted).period), LabelText(entry.period))
    THEN <<entry>> \o sorted
    ELSE <<Head(sorted)>> \o InsertDescending(Tail(sorted), entry)

RECURSIVE SortDescending(_, _)
SortDescending(entries, sorted) ==
    IF entries = <<>> THEN sorted
    ELSE SortDescending(Tail(entries), InsertDescending(sorted, Head(entries)))

\* periodGroups of a request
PeriodGroups(rows, granularity) ==
    SortDescending(GroupByPeriod(aggregateByMarketer(rows, granularity), <<>>), <<>>)

----------------------------------------------------------------------------
(* The external side: reports of the reporting API, getRevenueSummary,     *)
(* getRevenueByPeriod, and the reconciliation of the route                 *)

TXT_Zero00 == <<"0", ".", "0", "0">>

SectionRow(group, total) ==
    [group |-> Some(group), Header |-> None,
     Summary |-> WithColData(<<Col(TXT_Total), Col(total)>>)]

ReportOfRows(rows) == Some([Rows |-> Some([Row |-> Some(rows)])])

\* the books of a company: the report the reporting API returns for a window
\* with the given label.  "trading": income and cost of goods sold, higher in
\* the first month, quarter or year of the model; "dormant": an income
\* section of 0.00 and no cost of goods sold; "empty": a report without rows
Books == {"trading", "dormant", "empty"}

ReportOfBook(book, label) ==
    IF book = "trading"
    THEN IF label[2] = 2024 /\ (Len(label) = 2 \/ label[3] = 1)
         THEN ReportOfRows(<<SectionRow("Income", TXT_1500),
                             SectionRow("COGS", TXT_250_5)>>)
         ELSE ReportOfRows(<<SectionRow("Income", TXT_250_5),
                             SectionRow("COGS", TXT_Minus20)>>)
    ELSE IF book = "dormant"
    THEN ReportOfRows(<<SectionRow("Income", TXT_Zero00)>>)
    ELSE Some([Rows |-> None])

\* the offset of the server's time zone from UTC, in hours
ServerTz == 0

\* the object getRevenueSummary returns for the two totals (its property
\* `period` is not read by its caller)
SummaryOfTotals(revenue, cogs) ==
    [revenue |-> revenue, cost_of_goods |-> cogs,
     gross_profit |-> JsSub(revenue, cogs)]

\* getRevenueSummary for a report that qbRequest returned
getRevenueSummary(report) ==
    SummaryOfTotals(extractRevenueFromReport(report).value,
                    extractCOGSFromReport(report).value)

\* the item getRevenueByPeriod makes of a window's label and summary
ItemOfSummary(label, summary) ==
    [period |-> label,
     revenue |-> summary.revenue,
     cost_of_goods |-> summary.cost_of_goods,
     gross_profit |-> summary.gross_profit]

\* periods.map(...) of getRevenueByPeriod when every report request succeeds
ItemsOfPeriods(book, periods) ==
    [i \in 1..Len(periods) |->
        ItemOfSummary(periods[i].label,
                      getRevenueSummary(ReportOfBook(book, periods[i].label)))]

\* getRevenueByPeriod when every report request succeeds: one item for each
\* window of generatePeriods, in order
getRevenueByPeriod(book, startDate, endDate, granularity) ==
    ItemsOfPeriods(book, generatePeriods(ServerTz, startDate, endDate, granularity))

\* aggregatedByPeriod: a Map from label to sums, as the list of its entries
\* in insertion order; `lists` are Object.values(allQBRevenue)
RECURSIVE AddLocationData(_, _)
AddLocationData(locationData, aggregated) ==
    IF locationData = <<>> THEN aggregated
    ELSE LET item == Head(locationData)
             at == {i \in 1..Len(aggregated) : aggregated[i].period = item.period}
             existing == IF at = {}
                         THEN [period |-> item.period, revenue |-> Num(0),
                               cost_of_goods |-> Num(0), gross_profit |-> Num(0)]
                         ELSE aggregated[CHOOSE i \in at : TRUE]
             summed == [existing EXCEPT
                           !.revenue = JsAdd(@, item.revenue),
                           !.cost_of_goods = JsAdd(@, item.cost_of_goods),
                           !.gross_profit = JsAdd(@, item.gross_profit)]
         IN  AddLocationData(Tail(locationData),
                IF at = {} THEN Append(aggregated, summed)
                ELSE [i \in 1..Len(aggregated) |->
                        IF i \in at THEN summed ELSE aggregated[i]])

RECURSIVE AggregateByPeriod(_, _)
AggregateByPeriod(lists, aggregated) ==
    IF lists = <<>> THEN aggregated
    ELSE AggregateByPeriod(Tail(lists), AddLocationData(Head(lists), aggregated))

\* aggregatedByPeriod counting the first location only
AggregatedByPeriod_FirstLocationOnly(lists) ==
    AggregateByPeriod(IF lists = <<>> THEN lists ELSE <<Head(lists)>>, <<>>)

\* aggregatedByPeriod of the lists Object.values(allQBRevenue)
AggregatedByPeriod(lists) == AggregateByPeriod(lists, <<>>)

\* Map.get(period) on a list of entries with distinct periods
MapGet(entries, period) ==
    LET at == {i \in 1..Len(entries) : entries[i].period = period}
    IN  IF at = {} THEN None ELSE Some(entries[CHOOSE i \in at : TRUE])

\* new Map(qbRevenue.map(item => [item.period, item])): a later item replaces
\* an earlier one with the same period
RECURSIVE MapOfItems(_, _)
MapOfItems(items, map) ==
    IF items = <<>> THEN map
    ELSE LET item == Head(items)
             at == {i \in 1..Len(map) : map[i].period = item.period}
         IN  MapOfItems(Tail(items),
                IF at = {} THEN Append(map, item)
                ELSE [i \in 1..Len(map) |-> IF i \in at THEN item ELSE map[i]])

\* the row of the all-locations comparison with no variance for a period
\* group that has no external entry
ComparisonRowAll_NoMatchNoVariance(group, aggregatedByPeriod) ==
    LET qbPeriod == MapGet(aggregatedByPeriod, group.period)
    IN  IF ~Has(qbPeriod)
        THEN [period |-> group.period,
              internal_revenue |-> group.totals.total_pt_paid,
              quickbooks_revenue |-> Num(0),
              quickbooks_cogs |-> Num(0),
              quickbooks_gross_profit |-> Num(0),
              variance |-> Num(0),
              variance_percentage |-> Num(0)]
        ELSE LET variance == JsSub(group.totals.total_pt_paid, qbPeriod[1].revenue)
                 variancePercentage ==
                     IF JsNonZero(qbPeriod[1].revenue)
                     THEN JsMul(JsDiv(variance, qbPeriod[1].revenue), Num(100))
                     ELSE Num(0)
             IN  [period |-> group.period,
                  internal_revenue |-> group.totals.total_pt_paid,
                  quickbooks_revenue |-> qbPeriod[1].revenue,
                  quickbooks_cogs |-> qbPeriod[1].cost_of_goods,
                  quickbooks_gross_profit |-> qbPeriod[1].gross_profit,
                  variance |-> variance,
                  variance_percentage |-> variancePercentage]

\* the row of the all-locations comparison for a period group
ComparisonRowAll(group, aggregatedByPeriod) ==
    LET qbPeriod == MapGet(aggregatedByPeriod, group.period)
    IN  IF ~Has(qbPeriod)
        THEN [period |-> group.period,
              internal_revenue |-> group.totals.total_pt_paid,
              quickbooks_revenue |-> Num(0),
              quickbooks_cogs |-> Num(0),
              quickbooks_gross_profit |-> Num(0),
              variance |-> group.totals.total_pt_paid,
              variance_percentage |-> Num(0)]
        ELSE LET variance == JsSub(group.totals.total_pt_paid, qbPeriod[1].revenue)
                 variancePercentage ==
                     IF JsNonZero(qbPeriod[1].revenue)
                     THEN JsMul(JsDiv(variance, qbPeriod[1].revenue), Num(100))
                     ELSE Num(0)
             IN  [period |-> group.period,
                  internal_revenue |-> group.totals.total_pt_paid,
                  quickbooks_revenue |-> qbPeriod[1].revenue,
                  quickbooks_cogs |-> qbPeriod[1].cost_of_goods,
                  quickbooks_gross_profit |-> qbPeriod[1].gross_profit,
                  variance |-> variance,
                  variance_percentage |-> variancePercentage]

\* the row of the single-location comparison with the size of the
\* difference as its variance
ComparisonRowOne_AbsoluteVariance(group, qbByPeriod) ==
    LET qbPeriod == MapGet(qbByPeriod, group.period)
    IN  IF ~Has(qbPeriod)
        THEN [period |-> group.period,
              internal_revenue |-> group.totals.total_pt_paid,
              quickbooks_revenue |-> Num(0),
              quickbooks_product_revenue |-> Some(Num(0)),
              quickbooks_shipping_revenue |-> Some(Num(0)),
              quickbooks_cogs |-> Num(0),
              quickbooks_gross_profit |-> Num(0),
              variance |-> group.totals.total_pt_paid,
              variance_percentage |-> Num(0)]
        ELSE LET diff == JsSub(group.totals.total_pt_paid, qbPeriod[1].revenue)
                 variance == IF ~diff.nan /\ diff.num < 0
                             THEN JsSub(Num(0), diff) ELSE diff
                 variancePercentage ==
                     IF JsNonZero(qbPeriod[1].revenue)
                     THEN JsMul(JsDiv(variance, qbPeriod[1].revenue), Num(100))
                     ELSE Num(0)
             IN  [period |-> group.period,
                  internal_revenue |-> group.totals.total_pt_paid,
                  quickbooks_revenue |-> qbPeriod[1].revenue,
                  quickbooks_product_revenue |-> None,
                  quickbooks_shipping_revenue |-> None,
                  quickbooks_cogs |-> qbPeriod[1].cost_of_goods,
                  quickbooks_gross_profit |-> qbPeriod[1].gross_profit,
                  variance |-> variance,
                  variance_percentage |-> variancePercentage]

\* the row of the single-location comparison for a period group; the items
\* of getRevenueByPeriod have no product_revenue and no shipping_revenue, so
\* both are undefined in a row that has an external entry
ComparisonRowOne(group, qbByPeriod) ==
    LET qbPeriod == MapGet(qbByPeriod, group.period)
    IN  IF ~Has(qbPeriod)
        THEN [period |-> group.period,
              internal_revenue |-> group.totals.total_pt_paid,
              quickbooks_revenue |-> Num(0),
              quickbooks_product_revenue |-> Some(Num(0)),
              quickbooks_shipping_revenue |-> Some(Num(0)),
              quickbooks_cogs |-> Num(0),
              quickbooks_gross_profit |-> Num(0),
              variance |-> group.totals.total_pt_paid,
              variance_percentage |-> Num(0)]
        ELSE LET variance == JsSub(group.totals.total_pt_paid, qbPeriod[1].revenue)
                 variancePercentage ==
                     IF JsNonZero(qbPeriod[1].revenue)
                     THEN JsMul(JsDiv(variance, qbPeriod[1].revenue), Num(100))
                     ELSE Num(0)
             IN  [period |-> group.period,
                  internal_revenue |-> group.totals.total_pt_paid,
                  quickbooks_revenue |-> qbPeriod[1].revenue,
                  quickbooks_product_revenue |-> None,
                  quickbooks_shipping_revenue |-> None,
                  quickbooks_cogs |-> qbPeriod[1].cost_of_goods,
                  quickbooks_gross_profit |-> qbPeriod[1].gross_profit,
                  variance |-> variance,
                  variance_percentage |-> variancePercentage]

\* a request that has not arrived, the payload of no response
IdleRequest ==
    [pc |-> "idle", location |-> None, startDate |-> <<2024, 1, 1>>,
     endDate |-> <<2024, 1, 1>>, granularity |-> "monthly",
     periodGroups |-> <<>>, pending |-> {}, results |-> <<>>, errors |-> {}]

\* no call of getCachedQBData since the last setCachedQBData
NoGet ==
    [key |-> None, data |-> None, at |-> 0, timestamp |-> None,
     changed |-> FALSE, prev |-> None]

\* no call of setCachedQBData yet
NoSet == [key |-> None, before |-> EmptyCache, at |-> 0]

\* a call setCachedQBData(key, data) at time t on the Map `cache`
SetRecord(cache, key, t) == [key |-> Some(key), before |-> cache, at |-> t]

NoPayload ==
    [status |-> 0, error |-> None, periodGroups |-> <<>>,
     quickbooks |-> None, quickbooksComparison |-> None]

RouteIdle ==
    /\ qbCache = EmptyCache
    /\ req = IdleRequest
    /\ resp = NoPayload
    /\ lastGet = NoGet
    /\ lastSet = NoSet

----------------------------------------------------------------------------
(* The token store, the token endpoint and the authenticated request       *)

Locations == {"MedRock FL", "MedRock TN", "MedRock TX"}

\* LOCATION_MAPPING
LOCATION_MAPPING(loc) ==
    IF loc = "MedRock FL" THEN "Medrock FLORIDA"
    ELSE IF loc = "MedRock TN" THEN "Medrock TENNESSEE"
    ELSE "Medrock TEXAS"

\* the realmId values the OAuth redirect carries
RealmIds == {"realm-B"}

\* a state value of an OAuth redirect that is none of the three locations
OtherStates == {"MedRock GA"}

NumCalls == 1
MaxTok == 4
MaxTicks == 1

Calls == 1..NumCalls

\* the 5 minute buffer of getValidTokens
BUFFER_MS == 5 * 60 * 1000

\* data.expires_in of the token endpoint, in seconds (one hour)
EXPIRES_IN == 3600

\* the clock advances in steps of three minutes
TickMs == 3 * 60 * 1000

\* Date.now() when the model starts
StartNow == 60 * 60 * 1000

AccessToken(n) == <<"access", n>>
RefreshToken(n) == <<"refresh", n>>

\* Date.prototype.toISOString and new Date(iso).getTime(): millisecond precision
toISOString(ms) == [sec |-> ms \div 1000, milli |-> ms % 1000]
getTime(iso) == iso.sec * 1000 + iso.milli

NoTokens == [none |-> TRUE]

\* the token response of the token endpoint for pair n, read at time t
\* (exchangeCodeForTokens with the realmId of the response absent)
exchangeCodeForTokens(n, location, t) ==
    [access_token  |-> AccessToken(n),
     refresh_token |-> RefreshToken(n),
     expires_at    |-> t + EXPIRES_IN * 1000,
     realm_id      |-> "",
     location      |-> location]

\* refreshAccessToken with expires_in taken as milliseconds
refreshAccessToken_NoMillis(n, location, t) ==
    [access_token  |-> AccessToken(n),
     refresh_token |-> RefreshToken(n),
     expires_at    |-> t + EXPIRES_IN,
     realm_id      |-> "",
     location      |-> location]

\* refreshAccessToken, on an ok response carrying pair n, read at time t
refreshAccessToken(n, location, t) ==
    [access_token  |-> AccessToken(n),
     refresh_token |-> RefreshToken(n),
     expires_at    |-> t + EXPIRES_IN * 1000,
     realm_id      |-> "",
     location      |-> location]

\* the row storeTokens writes for a credential at time t
RowOfTokens(tokens, t) ==
    [location      |-> tokens.location,
     access_token  |-> tokens.access_token,
     refresh_token |-> tokens.refresh_token,
     expires_at    |-> toISOString(tokens.expires_at),
     realm_id      |-> tokens.realm_id,
     company_name  |-> LOCATION_MAPPING(tokens.location),
     updated_at    |-> toISOString(t)]

\* an insert in place of the upsert
Upsert_Insert(rows, row) == rows \cup {row}

\* upsert with onConflict: 'location'
Upsert(rows, row) == {r \in rows : r.location # row.location} \cup {row}

\* delete().eq('location', location)
DeleteLocation(rows, location) == {r \in rows : r.location # location}

\* select('*').eq('location', location)
SelectLocation(rows, location) == {r \in rows : r.location = location}

\* the QuickBooksTokens getValidTokens builds from the selected row
TokensOfRow(row) ==
    [access_token  |-> row.access_token,
     refresh_token |-> row.refresh_token,
     expires_at    |-> getTime(row.expires_at),
     realm_id      |-> row.realm_id,
     location      |-> row.location]

\* the expiry test with <= in place of <
NeedsRefresh_Inclusive(tokens, t) == tokens.expires_at <= t + BUFFER_MS

\* the expiry test of getValidTokens
NeedsRefresh(tokens, t) == tokens.expires_at < t + BUFFER_MS

\* the reporting API has not answered
NoResponse == [status |-> 0, body |-> ""]

\* HTTP statuses the reporting API answers with, and the text of the body
Statuses == {200, 401, 500}
Bodies == {"message=AuthenticationFailed"}

\* response.ok
ResponseOk(status) == 200 <= status /\ status <= 299

\* the message of the Error qbRequest throws for a response that is not ok:
\* `QB API error for ${location}: ${response.status} ${error}`
ApiErrorMessage(location, status, body) ==
    <<"QB API error for", location, status, body>>

IdleCall ==
    [pc |-> "idle", location |-> "", tokens |-> NoTokens, checkedAt |-> 0,
     refreshed |-> NoTokens, ret |-> NoTokens, returned |-> FALSE,
     refreshSent |-> 0,
     stored |-> 0, reportSent |-> 0, bearer |-> <<>>, result |-> "none",
     response |-> NoResponse, message |-> <<>>]

\* a qbRequest call that has ended: its local variables are gone, its
\* outcome (the value returned or the Error thrown) and what it sent remain
Ended(call, result) ==
    [IdleCall EXCEPT !.pc = "done", !.location = call.location,
                     !.returned = call.returned,
                     !.refreshSent = call.refreshSent, !.stored = call.stored,
                     !.reportSent = call.reportSent, !.result = result]

IdleCallback == [pc |-> "idle", tokens |-> NoTokens]

\* a row written by an OAuth callback of the past: pair n, written at `written`
PastRow(n, location, realm, written) ==
    RowOfTokens([exchangeCodeForTokens(n, location, written)
                    EXCEPT !.realm_id = realm], written)

\* the table when the model starts: the three locations were connected 58,
\* 55 and 50 minutes ago
PastConnect ==
    [l \in Locations |->
        IF l = "MedRock FL" THEN [n |-> 1, realm |-> "realm-A", age |-> 58]
        ELSE IF l = "MedRock TN" THEN [n |-> 2, realm |-> "realm-B", age |-> 55]
        ELSE [n |-> 3, realm |-> "realm-A", age |-> 50]]

PastRowOf(l) ==
    PastRow(PastConnect[l].n, l, PastConnect[l].realm,
            StartNow - PastConnect[l].age * 60 * 1000)

SumIdle ==
    /\ arItems = [l \in Locations |-> 0]
    /\ arResults = <<>>
    /\ arByPeriod = None

\* a date parameter of a query: its text, and whether new Date(text) is a
\* valid Date
DateParam(ymd) == [valid |-> TRUE, ymd |-> ymd]
MalformedDate == [valid |-> FALSE, ymd |-> <<0, 0, 0>>]

NoQuery ==
    [location |-> None, startDate |-> None, endDate |-> None,
     granularity |-> "monthly"]

RevIdle ==
    /\ rvQuery = NoQuery
    /\ rvPc = "idle"
    /\ rvReads = 0
    /\ rvCalls = 0
    /\ rvStatus = 0

IdleStatusRequest ==
    [pc |-> "idle", pending |-> {}, status |-> <<>>, details |-> <<>>]

NoStatusResponse == [code |-> 0, status |-> <<>>, details |-> <<>>]

StatusIdle ==
    /\ stReq = IdleStatusRequest
    /\ stResp = NoStatusResponse

NoCookie == [present |-> FALSE, format |-> "other", at |-> FALSE, exp |-> None]

NoCheck == [made |-> FALSE, threw |-> FALSE, status |-> 0]

GateIdle ==
    /\ mwReq = [revision |-> "presence", pathname |-> <<"/">>, devSkip |-> FALSE,
                cookie |-> NoCookie, pc |-> "idle", check |-> NoCheck]
    /\ mwResp = ""

\* an email address as typed: its letters, and whether some are capitals
Email(name, caps) == [name |-> name, caps |-> caps]

\* String.prototype.toLowerCase
toLowerCase(email) == [email EXCEPT !.caps = FALSE]

IdleCreate ==
    [pc |-> "idle", email |-> Email("", FALSE), userId |-> 0, orphanId |-> 0,
     retried |-> FALSE, result |-> "none", pairedBefore |-> TRUE,
     deletedProfiled |-> FALSE, rollbackFailed |-> FALSE, count |-> 0, nextId |-> 1]

UsersIdle ==
    /\ authUsers = {}
    /\ profiles = {}
    /\ cu = IdleCreate

MoreIdle ==
    /\ SumIdle
    /\ RevIdle
    /\ StatusIdle
    /\ GateIdle
    /\ UsersIdle

TokensIdle ==
    /\ now = StartNow
    /\ store = {}
    /\ valid = {}
    /\ nextTok = 1
    /\ calls = [c \in Calls |-> IdleCall]
    /\ cb = IdleCallback
    /\ disconnected = [l \in Locations |-> FALSE]

PeriodsIdle ==
    /\ gpStart = <<MinYear, 1, 1>>
    /\ gpEnd = <<MinYear, 1, 1>>
    /\ gpGran = "monthly"
    /\ gpTz = 0
    /\ gpPeriods = <<>>
    /\ gpDone = FALSE

InitTokens ==
    /\ MoreIdle
    /\ PeriodsIdle
    /\ ExtractIdle
    /\ RouteIdle
    /\ now = StartNow
    /\ store = {PastRowOf(l) : l \in Locations}
    /\ valid = {RefreshToken(PastConnect[l].n) : l \in Locations}
    /\ nextTok = Cardinality(Locations) + 1
    /\ calls = [c \in Calls |-> IdleCall]
    /\ cb = IdleCallback
    /\ disconnected = [l \in Locations |-> FALSE]

\* the clock advances
Tick ==
    /\ now + TickMs <= StartNow + MaxTicks * TickMs
    /\ now' = now + TickMs
    /\ UNCHANGED <<store, valid, nextTok, calls, cb, disconnected>>
    /\ UNCHANGED <<moreVars, periodVars, extractVars, routeVars>>

\* qbRequest(endpoint, location) is called: getValidTokens issues the select.
\* The calls are numbered in the order in which they start.
StartRequest(c, location) ==
    /\ calls[c].pc = "idle"
    /\ \A d \in DOMAIN calls : d < c => calls[d].pc # "idle"
    /\ calls' = [calls EXCEPT ![c] = [IdleCall EXCEPT !.pc = "select",
                                                      !.location = location]]
    /\ UNCHANGED <<now, store, valid, nextTok, cb, disconnected>>
    /\ UNCHANGED <<moreVars, periodVars, extractVars, routeVars>>

\* qbRequest without the check of the null result: the report request is
\* sent although getValidTokens returned null
SelectReturns_NoNullCheck(c, dbError) ==
    /\ calls[c].pc = "select"
    /\ LET rows == SelectLocation(store, calls[c].location)
           error == dbError \/ Cardinality(rows) # 1
       IN  IF error
           THEN calls' = [calls EXCEPT ![c].pc = "report",
                                       ![c].reportSent = @ + 1]
           ELSE LET tokens == TokensOfRow(CHOOSE r \in rows : TRUE)
                IN  IF NeedsRefresh(tokens, now)
                    THEN calls' = [calls EXCEPT ![c].pc = "refresh",
                                                ![c].tokens = tokens,
                                                ![c].checkedAt = now,
                                                ![c].refreshSent = @ + 1]
                    ELSE calls' = [calls EXCEPT ![c].pc = "report",
                                                ![c].tokens = tokens,
                                                ![c].checkedAt = now,
                                                ![c].ret = tokens,
                                                ![c].returned = TRUE,
                                                ![c].reportSent = @ + 1,
                                                ![c].bearer = tokens.access_token]
    /\ UNCHANGED <<now, store, valid, nextTok, cb, disconnected>>
    /\ UNCHANGED <<moreVars, periodVars, extractVars, routeVars>>

\* the select of getValidTokens returns; `dbError` is a failure of the query.
\* .single() answers an error unless exactly one row matches.
\* No row: getValidTokens returns null and qbRequest throws.
\* A row inside the buffer: the refresh request is sent.
\* Otherwise the row's tokens are returned and qbRequest sends the report request.
SelectReturns(c, dbError) ==
    /\ calls[c].pc = "select"
    /\ LET rows == SelectLocation(store, calls[c].location)
           error == dbError \/ Cardinality(rows) # 1
       IN  IF error
           THEN calls' = [calls EXCEPT ![c] = Ended(calls[c], "NotConnected")]
           ELSE LET tokens == TokensOfRow(CHOOSE r \in rows : TRUE)
                IN  IF NeedsRefresh(tokens, now)
                    THEN calls' = [calls EXCEPT ![c].pc = "refresh",
                                                ![c].tokens = tokens,
                                                ![c].checkedAt = now,
                                                ![c].refreshSent = @ + 1]
                    ELSE calls' = [calls EXCEPT ![c].pc = "report",
                                                ![c].tokens = tokens,
                                                ![c].checkedAt = now,
                                                ![c].ret = tokens,
                                                ![c].returned = TRUE,
                                                ![c].reportSent = @ + 1,
                                                ![c].bearer = tokens.access_token]
    /\ UNCHANGED <<now, store, valid, nextTok, cb, disconnected>>
    /\ UNCHANGED <<moreVars, periodVars, extractVars, routeVars>>

\* getValidTokens returning the refreshed credential without storing it
RefreshOk_NotStored(c) ==
    /\ calls[c].pc = "refresh"
    /\ calls[c].tokens.refresh_token \in valid
    /\ nextTok <= MaxTok
    /\ LET refreshed == [refreshAccessToken(nextTok, calls[c].location, now)
                            EXCEPT !.realm_id = calls[c].tokens.realm_id]
       IN  calls' = [calls EXCEPT ![c].pc = "report",
                                  ![c].refreshed = refreshed,
                                  ![c].ret = refreshed,
                                  ![c].returned = TRUE,
                                  ![c].reportSent = @ + 1,
                                  ![c].bearer = refreshed.access_token]
    /\ valid' = (valid \ {calls[c].tokens.refresh_token}) \cup {RefreshToken(nextTok)}
    /\ nextTok' = nextTok + 1
    /\ UNCHANGED <<now, store, cb, disconnected>>
    /\ UNCHANGED <<moreVars, periodVars, extractVars, routeVars>>

\* getValidTokens keeping the realm_id refreshAccessToken returned
RefreshOk_RealmNotPreserved(c) ==
    /\ calls[c].pc = "refresh"
    /\ calls[c].tokens.refresh_token \in valid
    /\ nextTok <= MaxTok
    /\ calls' = [calls EXCEPT ![c].pc = "store",
                               ![c].refreshed =
                                   refreshAccessToken(nextTok, calls[c].location, now)]
    /\ valid' = (valid \ {calls[c].tokens.refresh_token}) \cup {RefreshToken(nextTok)}
    /\ nextTok' = nextTok + 1
    /\ UNCHANGED <<now, store, cb, disconnected>>
    /\ UNCHANGED <<moreVars, periodVars, extractVars, routeVars>>

\* the token endpoint answers the refresh request with a new pair, which
\* replaces the refresh token that was sent; storeTokens issues the upsert
RefreshOk(c) ==
    /\ calls[c].pc = "refresh"
    /\ calls[c].tokens.refresh_token \in valid
    /\ nextTok <= MaxTok
    /\ LET refreshed == refreshAccessToken(nextTok, calls[c].location, now)
       IN  calls' = [calls EXCEPT ![c].pc = "store",
                                  ![c].refreshed =
                                      [refreshed EXCEPT !.realm_id = calls[c].tokens.realm_id]]
    /\ valid' = (valid \ {calls[c].tokens.refresh_token}) \cup {RefreshToken(nextTok)}
    /\ nextTok' = nextTok + 1
    /\ UNCHANGED <<now, store, cb, disconnected>>
    /\ UNCHANGED <<moreVars, periodVars, extractVars, routeVars>>

\* getValidTokens falling back to the stale credential when the refresh is
\* rejected
RefreshRejected_ReturnsStale(c) ==
    /\ calls[c].pc = "refresh"
    /\ calls' = [calls EXCEPT ![c].pc = "report",
                               ![c].ret = calls[c].tokens,
                               ![c].returned = TRUE,
                               ![c].reportSent = @ + 1,
                               ![c].bearer = calls[c].tokens.access_token]
    /\ UNCHANGED <<now, store, valid, nextTok, cb, disconnected>>
    /\ UNCHANGED <<moreVars, periodVars, extractVars, routeVars>>

\* the token endpoint rejects the refresh request: refreshAccessToken throws
RefreshRejected(c) ==
    /\ calls[c].pc = "refresh"
    /\ calls' = [calls EXCEPT ![c] = Ended(calls[c], "RefreshFailed")]
    /\ UNCHANGED <<now, store, valid, nextTok, cb, disconnected>>
    /\ UNCHANGED <<moreVars, periodVars, extractVars, routeVars>>

\* storeTokens writing the new access token beside the refresh token of the
\* row that was read
StoreOk_KeepsRefreshToken(c) ==
    /\ calls[c].pc = "store"
    /\ store' = Upsert(store,
                       RowOfTokens([calls[c].refreshed EXCEPT
                                       !.refresh_token = calls[c].tokens.refresh_token],
                                   now))
    /\ calls' = [calls EXCEPT ![c].pc = "report",
                               ![c].stored = @ + 1,
                               ![c].ret = calls[c].refreshed,
                               ![c].returned = TRUE,
                               ![c].reportSent = @ + 1,
                               ![c].bearer = calls[c].refreshed.access_token]
    /\ UNCHANGED <<now, valid, nextTok, cb, disconnected>>
    /\ UNCHANGED <<moreVars, periodVars, extractVars, routeVars>>

\* the upsert of storeTokens succeeds: getValidTokens returns the refreshed
\* credential and qbRequest sends the report request
StoreOk(c) ==
    /\ calls[c].pc = "store"
    /\ store' = Upsert(store, RowOfTokens(calls[c].refreshed, now))
    /\ calls' = [calls EXCEPT ![c].pc = "report",
                               ![c].stored = @ + 1,
                               ![c].ret = calls[c].refreshed,
                               ![c].returned = TRUE,
                               ![c].reportSent = @ + 1,
                               ![c].bearer = calls[c].refreshed.access_token]
    /\ UNCHANGED <<now, valid, nextTok, cb, disconnected>>
    /\ UNCHANGED <<moreVars, periodVars, extractVars, routeVars>>

\* the upsert of storeTokens fails: storeTokens throws
StoreFails(c) ==
    /\ calls[c].pc = "store"
    /\ calls' = [calls EXCEPT ![c] = Ended(calls[c], "StoreFailed")]
    /\ UNCHANGED <<now, store, valid, nextTok, cb, disconnected>>
    /\ UNCHANGED <<moreVars, periodVars, extractVars, routeVars>>

\* the reporting API answers with `status` and `body`: qbRequest returns
\* response.json() when response.ok, otherwise it reads the body as text and
\* throws one Error whose message holds the location, the status and the body
ReportReturns(c, status, body) ==
    /\ calls[c].pc = "report"
    /\ LET response == [status |-> status, body |-> body]
       IN  calls' = [calls EXCEPT ![c] =
              IF ResponseOk(status)
              THEN [Ended(calls[c], "ok") EXCEPT !.response = response]
              ELSE [Ended(calls[c], "QBApiError") EXCEPT
                       !.response = response,
                       !.message = ApiErrorMessage(calls[c].location, status, body)]]
    /\ UNCHANGED <<now, store, valid, nextTok, cb, disconnected>>
    /\ UNCHANGED <<moreVars, periodVars, extractVars, routeVars>>

\* OAuth callback GET with code, realmId and state; a state that is none of
\* the locations is answered with a redirect and nothing else.  The code is
\* exchanged, the realmId of the URL is put into the tokens and storeTokens
\* issues the upsert
CallbackExchange(state, realmId) ==
    /\ cb.pc = "idle"
    /\ state \in Locations
    /\ nextTok <= MaxTok
    /\ cb' = [pc |-> "store",
              tokens |-> [exchangeCodeForTokens(nextTok, state, now)
                             EXCEPT !.realm_id = realmId]]
    /\ valid' = valid \cup {RefreshToken(nextTok)}
    /\ nextTok' = nextTok + 1
    /\ UNCHANGED <<now, store, calls, disconnected>>
    /\ UNCHANGED <<moreVars, periodVars, extractVars, routeVars>>

\* OAuth callback: the upsert of storeTokens succeeds
CallbackStoreOk ==
    /\ cb.pc = "store"
    /\ store' = Upsert(store, RowOfTokens(cb.tokens, now))
    /\ disconnected' = [disconnected EXCEPT ![cb.tokens.location] = FALSE]
    /\ cb' = IdleCallback
    /\ UNCHANGED <<now, valid, nextTok, calls>>
    /\ UNCHANGED <<moreVars, periodVars, extractVars, routeVars>>

\* OAuth callback: the upsert of storeTokens fails
CallbackStoreFails ==
    /\ cb.pc = "store"
    /\ cb' = IdleCallback
    /\ UNCHANGED <<now, store, valid, nextTok, calls, disconnected>>
    /\ UNCHANGED <<moreVars, periodVars, extractVars, routeVars>>

\* POST disconnect for a valid location: disconnect(location) runs the
\* delete and returns
Disconnect(location) ==
    /\ store' = DeleteLocation(store, location)
    /\ disconnected' = [disconnected EXCEPT ![location] = TRUE]
    /\ \/ store' # store
       \/ disconnected' # disconnected
    /\ UNCHANGED <<now, valid, nextTok, calls, cb>>
    /\ UNCHANGED <<moreVars, periodVars, extractVars, routeVars>>

NextTokens ==
    \/ Tick
    \/ \E c \in Calls, l \in Locations : StartRequest(c, l)
    \/ \E c \in Calls, e \in BOOLEAN : SelectReturns(c, e)
    \/ \E c \in Calls : RefreshOk(c)
    \/ \E c \in Calls : RefreshRejected(c)
    \/ \E c \in Calls : StoreOk(c)
    \/ \E c \in Calls : StoreFails(c)
    \/ \E c \in Calls, s \in Statuses, b \in Bodies : ReportReturns(c, s, b)
    \/ \E s \in Locations \cup OtherStates, r \in RealmIds : CallbackExchange(s, r)
    \/ CallbackStoreOk
    \/ CallbackStoreFails
    \/ \E l \in Locations : Disconnect(l)

SpecTokens == InitTokens /\ [][NextTokens]_vars

----------------------------------------------------------------------------
(* Concurrent qbRequest calls for one location: the per-period calls of    *)
(* getRevenueByPeriod run under one Promise.all, and each of them calls    *)
(* getValidTokens; an OAuth callback for the location may run beside them  *)

NumRaceCalls == 2
RaceCalls == 1..NumRaceCalls
RaceLocation == "MedRock FL"

\* only the location is connected; its access token is inside the buffer
InitRace ==
    /\ MoreIdle
    /\ PeriodsIdle
    /\ ExtractIdle
    /\ RouteIdle
    /\ now = StartNow
    /\ store = {PastRowOf(RaceLocation)}
    /\ valid = {RefreshToken(PastConnect[RaceLocation].n)}
    /\ nextTok = PastConnect[RaceLocation].n + 1
    /\ calls = [c \in RaceCalls |-> IdleCall]
    /\ cb = IdleCallback
    /\ disconnected = [l \in Locations |-> FALSE]

NextRace ==
    \/ \E c \in RaceCalls : StartRequest(c, RaceLocation)
    \/ \E c \in RaceCalls : SelectReturns(c, FALSE)
    \/ \E c \in RaceCalls : RefreshOk(c)
    \/ \E c \in RaceCalls : RefreshRejected(c)
    \/ \E c \in RaceCalls : StoreOk(c)
    \/ \E c \in RaceCalls : StoreFails(c)
    \/ \E c \in RaceCalls : ReportReturns(c, 200, CHOOSE b \in Bodies : TRUE)
    \/ \E r \in RealmIds : CallbackExchange(RaceLocation, r)
    \/ CallbackStoreOk
    \/ CallbackStoreFails

SpecRace == InitRace /\ [][NextRace]_vars

----------------------------------------------------------------------------
(* The inputs of generatePeriods: valid calendar dates of MinYear..MaxYear *)

\* the first day, a day in the middle and the last day of every month, and
\* the end date of the documented scenario
DateStrings ==
    {s \in (MinYear..MaxYear) \X (1..12) \X (1..31) :
        s[3] \in {1, 15, DaysInMonth(s[1], s[2] - 1)}}
    \cup {<<2024, 3, 10>>}

DateLE(a, b) == DateParse(a) <= DateParse(b)

InitPeriods ==
    /\ MoreIdle
    /\ gpStart \in DateStrings
    /\ gpEnd \in {e \in DateStrings : DateLE(gpStart, e)}
    /\ gpGran \in Granularities
    /\ gpTz \in TzOffsets
    /\ gpPeriods = <<>>
    /\ gpDone = FALSE
    /\ TokensIdle
    /\ ExtractIdle
    /\ RouteIdle

GeneratePeriods ==
    /\ ~gpDone
    /\ gpPeriods' = generatePeriods(gpTz, gpStart, gpEnd, gpGran)
    /\ gpDone' = TRUE
    /\ UNCHANGED <<gpStart, gpEnd, gpGran, gpTz>>
    /\ UNCHANGED <<moreVars, tokenVars, extractVars, routeVars>>

NextPeriods == GeneratePeriods

SpecPeriods == InitPeriods /\ [][NextPeriods]_vars

----------------------------------------------------------------------------
(* The inputs of the report extractor                                      *)

InitExtract ==
    /\ MoreIdle
    /\ exReport \in Reports
    /\ exRevenue = NotExtracted
    /\ exCogs = NotExtracted
    /\ exDone = FALSE
    /\ PeriodsIdle
    /\ TokensIdle
    /\ RouteIdle

\* getRevenueSummary applies both extractors to the report it received
ExtractFromReport ==
    /\ ~exDone
    /\ exRevenue' = extractRevenueFromReport(exReport)
    /\ exCogs' = extractCOGSFromReport(exReport)
    /\ exDone' = TRUE
    /\ UNCHANGED exReport
    /\ UNCHANGED <<moreVars, periodVars, tokenVars, routeVars>>

NextExtract == ExtractFromReport

SpecExtract == InitExtract /\ [][NextExtract]_vars

----------------------------------------------------------------------------
(* The GET handler of the marketer-profitability route, one request, with  *)
(* every await as a step boundary                                          *)

\* the body of a 429 answer; the handler looks for 'rate limit' in the message
ThrottleBody == "message=ThrottleExceeded; rate limit exceeded"

\* errorMessage.includes('rate limit')
IncludesRateLimit(message) == message[Len(message)] = ThrottleBody

RateLimitUserMessage ==
    <<"QuickBooks API rate limit reached. Data is being fetched with automatic retries. Please wait a moment and the data will appear.">>

\* the answers of the reporting API that make getRevenueByPeriod throw in
\* the model: a 401 and a 429
FetchFailures ==
    {[status |-> 401, body |-> b] : b \in Bodies}
    \cup {[status |-> 429, body |-> ThrottleBody]}

\* the message of the Error of refreshAccessToken, which isConnected lets
\* through: `Failed to refresh token: ${error}`
RefreshErrorMessage(body) == <<"Failed to refresh token:", body>>

\* the value of `quickbooks` in the payload; a property that is absent is None
QuickbooksData(connected, location, message, error, data, totals) ==
    [connected |-> connected, location |-> location, message |-> message,
     error |-> error, data |-> data, totals |-> totals]

\* NextResponse.json({..., periodGroups, quickbooks, quickbooksComparison})
Payload(periodGroups, quickbooks, quickbooksComparison) ==
    [status |-> 200, error |-> None, periodGroups |-> periodGroups,
     quickbooks |-> quickbooks, quickbooksComparison |-> quickbooksComparison]

\* the all-locations payload with rows only for the period groups that have
\* an external entry
AllLocationsPayload_MatchedOnly(periodGroups, allQBRevenue) ==
    LET lists == [i \in 1..Len(allQBRevenue) |-> allQBRevenue[i].data]
        aggregatedByPeriod == AggregatedByPeriod(lists)
        matched == SelectSeq(periodGroups,
                       LAMBDA g : Has(MapGet(aggregatedByPeriod, g.period)))
    IN  Payload(periodGroups,
            Some(QuickbooksData(TRUE, Some("all"),
                    Some(<<"Aggregated from all connected locations">>),
                    None, None, None)),
            Some([i \in 1..Len(matched) |->
                    ComparisonRowAll(matched[i], aggregatedByPeriod)]))

\* the payload of the all-locations path for the data allQBRevenue, a list
\* of [location, data] in the order of Object.values
AllLocationsPayload(periodGroups, allQBRevenue) ==
    LET lists == [i \in 1..Len(allQBRevenue) |-> allQBRevenue[i].data]
        aggregatedByPeriod == AggregatedByPeriod(lists)
    IN  Payload(periodGroups,
            Some(QuickbooksData(TRUE, Some("all"),
                    Some(<<"Aggregated from all connected locations">>),
                    None, None, None)),
            Some([i \in 1..Len(periodGroups) |->
                    ComparisonRowAll(periodGroups[i], aggregatedByPeriod)]))

\* qbRevenue.reduce((sum, item) => sum + item[property], 0); a property the
\* items do not have is undefined and makes the sum NaN
RECURSIVE Reduce(_, _, _)
Reduce(items, property, sum) ==
    IF items = <<>> THEN sum
    ELSE Reduce(Tail(items), property,
                IF property \in DOMAIN Head(items)
                THEN JsAdd(sum, Head(items)[property]) ELSE NaN)

\* the payload of the single-location path for the list qbRevenue
SingleLocationPayload(periodGroups, location, qbRevenue) ==
    LET qbByPeriod == MapOfItems(qbRevenue, <<>>)
        totals == [revenue |-> Reduce(qbRevenue, "revenue", Num(0)),
                   product_revenue |-> Reduce(qbRevenue, "product_revenue", Num(0)),
                   shipping_revenue |-> Reduce(qbRevenue, "shipping_revenue", Num(0)),
                   cost_of_goods |-> Reduce(qbRevenue, "cost_of_goods", Num(0)),
                   gross_profit |-> Reduce(qbRevenue, "gross_profit", Num(0))]
    IN  Payload(periodGroups,
            Some(QuickbooksData(TRUE, Some(location), None, None,
                                Some(qbRevenue), Some(totals))),
            Some([i \in 1..Len(periodGroups) |->
                    ComparisonRowOne(periodGroups[i], qbByPeriod)]))

\* the payload after the catch of the QuickBooks part
CaughtPayload(periodGroups, errorMessage) ==
    Payload(periodGroups,
        Some(QuickbooksData(FALSE, None, None,
                Some(IF IncludesRateLimit(errorMessage)
                     THEN RateLimitUserMessage ELSE errorMessage),
                None, None)),
        None)

\* the date ranges of the requests of the model
RequestRanges ==
    {<<<<2024, 1, 1>>, <<2024, 2, 29>>>>,
     <<<<2024, 1, 15>>, <<2024, 3, 10>>>>}

\* the location parameter: absent, 'all', or a location
RequestLocations == {None, Some("all")} \cup {Some(l) : l \in Locations}

\* a request that has been answered
Answered(request) == [request EXCEPT !.pc = "done", !.pending = {}]

\* the data a request for all locations cached in the past: MedRock TN
\* trading, MedRock FL failed
PastAllData(startDate, endDate, granularity) ==
    <<[location |-> "MedRock TN",
       data |-> getRevenueByPeriod("trading", startDate, endDate, granularity)],
      [location |-> "MedRock FL", data |-> <<>>]>>

\* the minutes since a past request filled the cache
PastFetchAges == {30, 60, 61}

\* the Map when the model starts: empty, or filled with the data for all
\* locations or for MedRock TN of a past monthly request
PastCaches ==
    {EmptyCache}
    \cup {LET range == <<<<2024, 1, 1>>, <<2024, 2, 29>>>>
          IN  setCachedQBData(
                  setCachedQBData(EmptyCache,
                      getCacheKey(None, range[1], range[2], "monthly"),
                      PastAllData(range[1], range[2], "monthly"),
                      StartNow - age * 60 * 1000),
                  getCacheKey(Some("MedRock TN"), range[1], range[2], "monthly"),
                  getRevenueByPeriod("dormant", range[1], range[2], "monthly"),
                  StartNow - age * 60 * 1000) : age \in PastFetchAges}

\* the tables of tokens when the model starts: every location connected,
\* MedRock TX not connected, or none connected
PastStores ==
    {{PastRowOf(l) : l \in Locations},
     {PastRowOf(l) : l \in Locations \ {"MedRock TX"}},
     {}}

InitRoute ==
    /\ MoreIdle
    /\ PeriodsIdle
    /\ ExtractIdle
    /\ now = StartNow
    /\ store \in PastStores
    /\ valid = {RefreshToken(PastConnect[r.location].n) : r \in store}
    /\ nextTok = Cardinality(Locations) + 1
    /\ calls = [c \in Calls |-> IdleCall]
    /\ cb = IdleCallback
    /\ disconnected = [l \in Locations |-> FALSE]
    /\ qbCache \in PastCaches
    /\ req = IdleRequest
    /\ resp = NoPayload
    /\ lastGet = NoGet
    /\ lastSet = NoSet

RouteUnchanged ==
    UNCHANGED <<moreVars, periodVars, extractVars, now, store, valid, nextTok, calls, cb,
                disconnected, lastGet>>

\* what a call getCachedQBData(key) at time t returned (got), with the
\* timestamp the entry of the key had before the call
GetRecord(cache, key, got, t) ==
    [key |-> Some(key), data |-> got.data, at |-> t,
     timestamp |-> IF key \in DOMAIN cache
                   THEN Some(cache[key].timestamp) ELSE None,
     changed |-> got.cache # cache,
     prev |-> None]

\* the steps of the handler that call getCachedQBData leave the rest alone
RouteUnchangedButGet ==
    UNCHANGED <<moreVars, periodVars, extractVars, now, store, valid, nextTok, calls, cb,
                disconnected>>

\* the cache is filled with allQBRevenue and the all-locations payload is sent
FinishAllLocations(request, allQBRevenue) ==
    /\ qbCache' = setCachedQBData(qbCache,
                      getCacheKey(None, request.startDate, request.endDate,
                                  request.granularity),
                      allQBRevenue, now)
    /\ lastSet' = SetRecord(qbCache,
                      getCacheKey(None, request.startDate, request.endDate,
                                  request.granularity), now)
    /\ req' = Answered([request EXCEPT !.results = allQBRevenue])
    /\ resp' = AllLocationsPayload(request.periodGroups, allQBRevenue)

\* GET with location, startDate, endDate, granularity and includeQuickBooks:
\* the query of the ledger returns (with an error: status 500); the period
\* groups are built; without includeQuickBooks the payload is sent; for all
\* locations the cache is read (a hit: the payload is sent; a miss:
\* getRevenueAllLocations selects the connected locations); for one location
\* isConnected is called
GetRequest(location, range, granularity, includeQB, queryError) ==
    /\ req.pc = "idle"
    /\ resp.status = 0
    /\ LET periodGroups == PeriodGroups(Query(location, range[1], range[2]),
                                        granularity)
           request == [IdleRequest EXCEPT !.location = location,
                                          !.startDate = range[1],
                                          !.endDate = range[2],
                                          !.granularity = granularity,
                                          !.periodGroups = periodGroups]
           qbLocation == IF Has(location) /\ location[1] # "all" THEN location
                         ELSE None
           cached == getCachedQBData(qbCache,
                         getCacheKey(None, range[1], range[2], granularity), now)
           got == GetRecord(qbCache,
                      getCacheKey(None, range[1], range[2], granularity),
                      cached, now)
       IN  IF queryError
           THEN /\ resp' = [NoPayload EXCEPT !.status = 500,
                                             !.error = Some(<<"query failed">>)]
                /\ req' = Answered([request EXCEPT !.periodGroups = <<>>])
                /\ UNCHANGED <<qbCache, lastGet, lastSet>>
           ELSE IF ~includeQB
           THEN /\ resp' = Payload(periodGroups, None, None)
                /\ req' = Answered(request)
                /\ UNCHANGED <<qbCache, lastGet, lastSet>>
           ELSE IF Has(qbLocation)
           THEN /\ req' = [request EXCEPT !.pc = "isConnected"]
                /\ UNCHANGED <<qbCache, resp, lastGet, lastSet>>
           ELSE IF Has(cached.data)
           THEN /\ resp' = AllLocationsPayload(periodGroups, cached.data[1])
                /\ req' = Answered([request EXCEPT !.results = cached.data[1]])
                /\ qbCache' = cached.cache
                /\ lastGet' = got
                /\ UNCHANGED lastSet
           ELSE /\ req' = [request EXCEPT !.pc = "locations"]
                /\ qbCache' = cached.cache
                /\ lastGet' = got
                /\ UNCHANGED lastSet
                /\ UNCHANGED resp
    /\ RouteUnchangedButGet

\* getConnectedLocations returns (an error of the select: no location);
\* getRevenueByPeriod is started for every location.  With no location
\* Promise.all resolves at once and the handler goes on
ConnectedLocationsReturn(dbError) ==
    /\ req.pc = "locations"
    /\ LET locations == IF dbError THEN {} ELSE {r.location : r \in store}
       IN  IF locations = {}
           THEN FinishAllLocations(req, <<>>)
           ELSE /\ req' = [req EXCEPT !.pc = "fetchAll", !.pending = locations]
                /\ UNCHANGED <<qbCache, resp, lastSet>>
    /\ RouteUnchanged

\* results[location] = data for a location of the pending ones
ResultsSet(request, location, data) ==
    [request EXCEPT
        !.pending = @ \ {location},
        !.results = Append(@, [location |-> location, data |-> data])]

\* a promise of getRevenueAllLocations has settled: when it was the last one
\* Promise.all resolves and the handler goes on
LocationSettled(request) ==
    IF request.pending = {}
    THEN FinishAllLocations(request, request.results)
    ELSE /\ req' = request
         /\ UNCHANGED <<qbCache, resp, lastSet>>

\* the entry of results for a location whose getRevenueByPeriod threw,
\* without the catch of getRevenueAllLocations: the rejection reaches the
\* handler of the route
LocationThrows_NoCatch(location, failure) ==
    /\ req.pc = "fetchAll"
    /\ location \in req.pending
    /\ LET message == ApiErrorMessage(location, failure.status, failure.body)
       IN  /\ req' = Answered([req EXCEPT
                         !.errors = @ \cup {[location |-> location,
                                             message |-> message]}])
           /\ resp' = CaughtPayload(req.periodGroups, message)
    /\ UNCHANGED <<qbCache, lastSet>>
    /\ RouteUnchanged

\* getRevenueByPeriod of a location throws: the catch of
\* getRevenueAllLocations logs the error and sets results[location] = [].
\* When it was the last location the handler goes on
LocationThrows(location, failure) ==
    /\ req.pc = "fetchAll"
    /\ location \in req.pending
    /\ LocationSettled(
           [ResultsSet(req, location, <<>>) EXCEPT
               !.errors = @ \cup
                   {[location |-> location,
                     message |-> ApiErrorMessage(location, failure.status,
                                                 failure.body)]}])
    /\ RouteUnchanged

\* getRevenueByPeriod of a location returns its list: results[location] is
\* set.  When it was the last location the handler goes on
LocationReturns(location, book) ==
    /\ req.pc = "fetchAll"
    /\ location \in req.pending
    /\ LocationSettled(
           ResultsSet(req, location,
               getRevenueByPeriod(book, req.startDate, req.endDate,
                                  req.granularity)))
    /\ RouteUnchanged

\* isConnected(qbLocation) returns: false when no tokens are stored (the
\* payload says so); otherwise the cache is read (a hit: the payload is sent;
\* a miss: getRevenueByPeriod is called)
IsConnectedReturns ==
    /\ req.pc = "isConnected"
    /\ LET location == req.location[1]
           cached == getCachedQBData(qbCache,
                         getCacheKey(req.location, req.startDate, req.endDate,
                                     req.granularity), now)
           got == GetRecord(qbCache,
                      getCacheKey(req.location, req.startDate, req.endDate,
                                  req.granularity),
                      cached, now)
       IN  IF SelectLocation(store, location) = {}
           THEN /\ resp' = Payload(req.periodGroups,
                              Some(QuickbooksData(FALSE, Some(location),
                                      Some(<<"QuickBooks not connected for", location>>),
                                      None, None, None)),
                              None)
                /\ req' = Answered(req)
                /\ UNCHANGED <<qbCache, lastGet, lastSet>>
           ELSE IF Has(cached.data)
           THEN /\ resp' = SingleLocationPayload(req.periodGroups, location,
                                                 cached.data[1])
                /\ req' = Answered([req EXCEPT !.results = cached.data[1]])
                /\ qbCache' = cached.cache
                /\ lastGet' = got
                /\ UNCHANGED lastSet
           ELSE /\ req' = [req EXCEPT !.pc = "fetchOne"]
                /\ qbCache' = cached.cache
                /\ lastGet' = got
                /\ UNCHANGED lastSet
                /\ UNCHANGED resp
    /\ RouteUnchangedButGet

\* isConnected(qbLocation) throws: the stored tokens had to be refreshed and
\* the token endpoint rejected the refresh; the catch of the route answers
IsConnectedThrows(body) ==
    /\ req.pc = "isConnected"
    /\ SelectLocation(store, req.location[1]) # {}
    /\ resp' = CaughtPayload(req.periodGroups, RefreshErrorMessage(body))
    /\ req' = Answered([req EXCEPT
                  !.errors = {[location |-> req.location[1],
                               message |-> RefreshErrorMessage(body)]}])
    /\ UNCHANGED <<qbCache, lastSet>>
    /\ RouteUnchanged

\* the cache is filled with qbRevenue and the single-location payload is sent
FinishSingleLocation(qbRevenue) ==
    /\ qbCache' = setCachedQBData(qbCache,
                      getCacheKey(req.location, req.startDate,
                                  req.endDate, req.granularity),
                      qbRevenue, now)
    /\ lastSet' = SetRecord(qbCache,
                      getCacheKey(req.location, req.startDate,
                                  req.endDate, req.granularity), now)
    /\ resp' = SingleLocationPayload(req.periodGroups, req.location[1],
                                     qbRevenue)
    /\ req' = Answered([req EXCEPT !.results = qbRevenue])

\* getRevenueByPeriod of the single location returns: the cache is filled
\* and the payload is sent
SingleLocationReturns(book) ==
    /\ req.pc = "fetchOne"
    /\ FinishSingleLocation(getRevenueByPeriod(book, req.startDate, req.endDate,
                                               req.granularity))
    /\ RouteUnchanged

\* getRevenueByPeriod of the single location throws: the catch of the route
\* answers
SingleLocationThrows(failure) ==
    /\ req.pc = "fetchOne"
    /\ LET message == ApiErrorMessage(req.location[1], failure.status,
                                      failure.body)
       IN  /\ resp' = CaughtPayload(req.periodGroups, message)
           /\ req' = Answered([req EXCEPT
                         !.errors = {[location |-> req.location[1],
                                      message |-> message]}])
    /\ UNCHANGED <<qbCache, lastSet>>
    /\ RouteUnchanged

NextRoute ==
    \/ \E l \in RequestLocations, r \in RequestRanges, g \in Granularities,
          q \in BOOLEAN, e \in BOOLEAN : GetRequest(l, r, g, q, e)
    \/ \E e \in BOOLEAN : ConnectedLocationsReturn(e)
    \/ \E l \in Locations, f \in FetchFailures : LocationThrows(l, f)
    \/ \E l \in Locations, b \in Books : LocationReturns(l, b)
    \/ IsConnectedReturns
    \/ \E b \in Bodies : IsConnectedThrows(b)
    \/ \E b \in Books : SingleLocationReturns(b)
    \/ \E f \in FetchFailures : SingleLocationThrows(f)

SpecRoute == InitRoute /\ [][NextRoute]_vars

----------------------------------------------------------------------------
(* The response cache on its own: calls of getCachedQBData and of          *)
(* setCachedQBData while time passes                                       *)

CacheTickMs == 30 * 60 * 1000
MaxCacheTicks == 3

\* the keys and the payloads of the calls
CacheKeys ==
    {getCacheKey(None, <<2024, 1, 1>>, <<2024, 2, 29>>, "monthly"),
     getCacheKey(Some("MedRock TN"), <<2024, 1, 1>>, <<2024, 2, 29>>, "monthly")}

CachePayloads ==
    {getRevenueByPeriod(b, <<2024, 1, 1>>, <<2024, 2, 29>>, "monthly") :
        b \in {"trading", "dormant"}}

InitCache ==
    /\ MoreIdle
    /\ PeriodsIdle
    /\ ExtractIdle
    /\ TokensIdle
    /\ RouteIdle

\* time passes
CacheTick ==
    /\ now + CacheTickMs <= StartNow + MaxCacheTicks * CacheTickMs
    /\ now' = now + CacheTickMs
    /\ UNCHANGED <<moreVars, periodVars, extractVars, store, valid, nextTok, calls, cb,
                   disconnected, qbCache, req, resp, lastGet, lastSet>>

\* getCachedQBData(key) is called; lastGet keeps what it returned, and under
\* prev the same of the call before when that was a call for the same key
CacheGet(key) ==
    /\ LET got == getCachedQBData(qbCache, key, now)
       IN  /\ qbCache' = got.cache
           /\ UNCHANGED lastSet
           /\ lastGet' =
                 [GetRecord(qbCache, key, got, now) EXCEPT
                    !.prev = IF lastGet.key = Some(key)
                             THEN Some([data |-> lastGet.data, at |-> lastGet.at,
                                        timestamp |-> lastGet.timestamp,
                                        changed |-> lastGet.changed])
                             ELSE None]
    /\ UNCHANGED <<moreVars, periodVars, extractVars, now, store, valid, nextTok, calls,
                   cb, disconnected, req, resp>>

\* setCachedQBData(key, data) is called
CacheSet(key, data) ==
    /\ qbCache' = setCachedQBData(qbCache, key, data, now)
    /\ lastSet' = SetRecord(qbCache, key, now)
    /\ lastGet' = NoGet
    /\ UNCHANGED <<moreVars, periodVars, extractVars, now, store, valid, nextTok, calls,
                   cb, disconnected, req, resp>>

NextCache ==
    \/ CacheTick
    \/ \E k \in CacheKeys : CacheGet(k)
    \/ \E k \in CacheKeys, d \in CachePayloads : CacheSet(k, d)

SpecCache == InitCache /\ [][NextCache]_vars

----------------------------------------------------------------------------
(* The response cache around the size at which setCachedQBData sweeps      *)

\* how far above CACHE_SWEEP_SIZE the Map is filled when the model starts
MaxSweepOver == 1

\* distinct keys: requests for all locations and for MedRock TN with
\* different start dates
SweepKey(i) ==
    getCacheKey(IF i % 2 = 0 THEN None ELSE Some("MedRock TN"),
                <<2024, 1, 1 + (i \div 2)>>, <<2024, 2, 29>>, "monthly")

SweepSizes == (CACHE_SWEEP_SIZE - 2)..(CACHE_SWEEP_SIZE + MaxSweepOver)

\* a Map of n entries: the first `expired` of them were set 61 minutes ago,
\* the others `minutes` ago
SweepCache(n, expired, minutes) ==
    [k \in {SweepKey(i) : i \in 1..n} |->
        [data |-> <<>>,
         timestamp |-> IF (CHOOSE i \in 1..n : SweepKey(i) = k) <= expired
                       THEN StartNow - 61 * 60 * 1000
                       ELSE StartNow - minutes * 60 * 1000]]

SweepCaches ==
    {SweepCache(n, e, m) : n \in SweepSizes, e \in {0, 1, 2}, m \in {30, 60}}
    \cup {SweepCache(n, n, 30) : n \in SweepSizes}

\* the keys that are set: the first key, a key every Map of the model holds,
\* and two keys no Map of the model holds
SweepSetKeys ==
    {SweepKey(1), SweepKey(CACHE_SWEEP_SIZE - 2),
     SweepKey(CACHE_SWEEP_SIZE + MaxSweepOver + 1),
     SweepKey(CACHE_SWEEP_SIZE + MaxSweepOver + 2)}

InitSweep ==
    /\ MoreIdle
    /\ PeriodsIdle
    /\ ExtractIdle
    /\ now = StartNow
    /\ store = {}
    /\ valid = {}
    /\ nextTok = 1
    /\ calls = [c \in Calls |-> IdleCall]
    /\ cb = IdleCallback
    /\ disconnected = [l \in Locations |-> FALSE]
    /\ qbCache \in SweepCaches
    /\ req = IdleRequest
    /\ resp = NoPayload
    /\ lastGet = NoGet
    /\ lastSet = NoSet

NextSweep == \E k \in SweepSetKeys, d \in CachePayloads : CacheSet(k, d)

SpecSweep == InitSweep /\ [][NextSweep]_vars

----------------------------------------------------------------------------
(* The numbers of the aggregation as the IEEE 754 doubles they are.  A     *)
(* positive double is an integer of DoubleBits bits, most significant bit  *)
(* first, times 2^exp; sums are rounded to nearest, ties to even.          *)

DoubleBits == 53

DoubleZero == [bits |-> <<>>, exp |-> 0]

\* the binary digits of n > 0, none for 0
BitsOfNat(n) ==
    LET len == CHOOSE l \in 0..30 : 2^l > n /\ (l = 0 \/ 2^(l - 1) <= n)
    IN  [i \in 1..len |-> (n \div 2^(len - i)) % 2]

Zeros(n) == [i \in 1..n |-> 0]

RECURSIVE AddBits(_, _, _)

\* the high `half` bits added with the carry out of the low part's sum `low`
AddHigh(x, y, half, low) ==
    IF Len(low) > Len(x) - half
    THEN AddBits(SubSeq(x, 1, half), SubSeq(y, 1, half), 1) \o Tail(low)
    ELSE AddBits(SubSeq(x, 1, half), SubSeq(y, 1, half), 0) \o low

\* x + y + carry for bit strings of one length, by halves; the result is
\* one bit longer when the sum carries out
AddBits(x, y, carry) ==
    IF Len(x) = 0 THEN (IF carry = 1 THEN <<1>> ELSE <<>>)
    ELSE IF Len(x) = 1
    THEN (IF x[1] + y[1] + carry > 1 THEN <<1, (x[1] + y[1] + carry) % 2>>
          ELSE <<x[1] + y[1] + carry>>)
    ELSE AddHigh(x, y, Len(x) \div 2,
                 AddBits(SubSeq(x, Len(x) \div 2 + 1, Len(x)),
                         SubSeq(y, Len(y) \div 2 + 1, Len(y)), carry))

\* bits + 1
IncBits(bits) == AddBits(bits, Zeros(Len(bits)), 1)

\* the double nearest to kept * 2^exp + (a part below one unit of kept that
\* starts with the bit `guard` and is otherwise zero iff not `sticky`)
RoundToDouble(kept, exp, guard, sticky) ==
    IF guard = 1 /\ (sticky \/ kept[Len(kept)] = 1)
    THEN IF Len(IncBits(kept)) > Len(kept)
         THEN [bits |-> SubSeq(IncBits(kept), 1, Len(kept)), exp |-> exp + 1]
         ELSE [bits |-> IncBits(kept), exp |-> exp]
    ELSE [bits |-> kept, exp |-> exp]

\* 2^j modulo 100: the powers from 2^2 on repeat with period 20
PowerOfTwoMod100(j) ==
    IF j < 2 THEN 2^j ELSE (2^(2 + ((j - 2) % 20))) % 100

\* what is left of r / 100 below its first j binary places, in hundredths
\* of one unit of the last place
RemainderAt(r, j) == (r * PowerOfTwoMod100(j)) % 100

\* the i-th binary place of r / 100, for r < 100
FractionBit(r, i) == IF 2 * RemainderAt(r, i - 1) >= 100 THEN 1 ELSE 0

\* the double nearest to q + r / 100: the digits of q, then binary places
\* of r / 100 from place `first` on up to DoubleBits significant bits,
\* rounded by the place after them and what remains
ExpandHundredths(intBits, r, first) ==
    LET places == DoubleBits - Len(intBits)
        last   == first + places - 1
    IN  RoundToDouble(intBits \o [i \in 1..places |-> FractionBit(r, first + i - 1)],
                      0 - last, FractionBit(r, last + 1),
                      RemainderAt(r, last + 1) # 0)

\* parseFloat of the text of an amount of `cents` hundredths ("0.10",
\* "250.50"): the double nearest to cents / 100
ParseCents(cents) ==
    IF cents = 0 THEN DoubleZero
    ELSE IF cents >= 100
    THEN ExpandHundredths(BitsOfNat(cents \div 100), cents % 100, 1)
    ELSE ExpandHundredths(<<>>, cents,
                          CHOOSE i \in 1..7 : /\ FractionBit(cents, i) = 1
                                              /\ \A j \in 1..(i - 1) : FractionBit(cents, j) = 0)

\* the sum of the bit strings x * 2^(x.exp - e) and y * 2^(y.exp - e), as long
\* as the longer of them
AlignedSum(x, y, e) ==
    LET xs == x.bits \o Zeros(x.exp - e)
        ys == y.bits \o Zeros(y.exp - e)
        n  == IF Len(xs) > Len(ys) THEN Len(xs) ELSE Len(ys)
    IN  AddBits(Zeros(n - Len(xs)) \o xs, Zeros(n - Len(ys)) \o ys, 0)

\* the double of the bit string `sum` (at least DoubleBits bits) times 2^e
DoubleOfSum(sum, e) ==
    LET k == Len(sum) - DoubleBits
    IN  IF k = 0 THEN [bits |-> sum, exp |-> e]
        ELSE RoundToDouble(SubSeq(sum, 1, DoubleBits), e + k, sum[DoubleBits + 1],
                           \E i \in (DoubleBits + 2)..Len(sum) : sum[i] = 1)

\* x + y of two doubles that are not negative
DoubleAdd(x, y) ==
    IF x = DoubleZero THEN y
    ELSE IF y = DoubleZero THEN x
    ELSE DoubleOfSum(AlignedSum(x, y, IF x.exp < y.exp THEN x.exp ELSE y.exp),
                     IF x.exp < y.exp THEN x.exp ELSE y.exp)

----------------------------------------------------------------------------
(* getRevenueAllLocations and the aggregation of the route, for one period *)
(* that every location reports: the fetches of the locations run under one *)
(* Promise.all and each writes results[location] when it completes         *)

\* revenues of a location for the period, in cents
RevenueCents == {10, 20, 30, 25050, 150000}

InitSum ==
    /\ UsersIdle
    /\ RevIdle
    /\ StatusIdle
    /\ GateIdle
    /\ PeriodsIdle
    /\ ExtractIdle
    /\ TokensIdle
    /\ RouteIdle
    /\ arItems \in [Locations -> RevenueCents]
    /\ arResults = <<>>
    /\ arByPeriod = None

\* the getRevenueByPeriod of `location` returns: results[location] = revenue
\* adds the key behind the keys that are there
LocationCompletes(location) ==
    /\ arByPeriod = None
    /\ \A i \in 1..Len(arResults) : arResults[i] # location
    /\ arResults' = Append(arResults, location)
    /\ UNCHANGED <<arItems, arByPeriod>>
    /\ UNCHANGED <<periodVars, tokenVars, extractVars, routeVars, revVars, statusVars,
                 gateVars, userVars>>

\* Object.values(allQBRevenue).forEach(locationData => ...): the revenue of
\* aggregatedByPeriod for the period after the first n values, starting
\* from { revenue: 0 } and adding item.revenue in the order of the keys
RECURSIVE AggregatedRevenue(_, _, _)
AggregatedRevenue(items, keys, n) ==
    IF n = 0 THEN DoubleZero
    ELSE DoubleAdd(AggregatedRevenue(items, keys, n - 1), ParseCents(items[keys[n]]))

\* Promise.all has resolved: the route aggregates
Aggregate ==
    /\ arByPeriod = None
    /\ Len(arResults) = Cardinality(Locations)
    /\ arByPeriod' = Some(AggregatedRevenue(arItems, arResults, Len(arResults)))
    /\ UNCHANGED <<arItems, arResults>>
    /\ UNCHANGED <<periodVars, tokenVars, extractVars, routeVars, revVars, statusVars,
                 gateVars, userVars>>

NextSum ==
    \/ \E l \in Locations : LocationCompletes(l)
    \/ Aggregate

SpecSum == InitSum /\ [][NextSum]_vars

----------------------------------------------------------------------------
(* The QuickBooks revenue endpoint: GET with location, startDate, endDate  *)
(* and granularity                                                         *)

RevenueLocations == {None, Some("MedRock FL"), Some("MedRock TX"), Some("MedRock GA")}

RevenueDates ==
    {None, Some(MalformedDate), Some(DateParam(<<2024, 1, 1>>)),
     Some(DateParam(<<2024, 2, 15>>)), Some(DateParam(<<2024, 3, 31>>))}

RevenueQueries ==
    {[location |-> l, startDate |-> s, endDate |-> e, granularity |-> g] :
        l \in RevenueLocations, s \in RevenueDates, e \in RevenueDates,
        g \in {"monthly", "quarterly"}}

\* generatePeriods for the texts of a query: with an Invalid Date on either
\* side `current <= end` is false and the loop is not entered
PeriodsOfQuery(query) ==
    IF query.startDate[1].valid /\ query.endDate[1].valid
    THEN generatePeriods(ServerTz, query.startDate[1].ymd, query.endDate[1].ymd,
                         query.granularity)
    ELSE <<>>

InitRevenue ==
    /\ UsersIdle
    /\ SumIdle
    /\ StatusIdle
    /\ GateIdle
    /\ PeriodsIdle
    /\ ExtractIdle
    /\ TokensIdle
    /\ RouteIdle
    /\ rvQuery \in RevenueQueries
    /\ rvPc = "idle"
    /\ rvReads = 0
    /\ rvCalls = 0
    /\ rvStatus = 0

RevenueUnchanged ==
    UNCHANGED <<periodVars, tokenVars, extractVars, routeVars, sumVars,
                statusVars, gateVars, userVars>>

\* the handler runs up to its first await: 400 when location, startDate or
\* endDate is missing, 400 when the location is none of the three, otherwise
\* isConnected(location) is called and getValidTokens issues its select
RevenueGet ==
    /\ rvPc = "idle"
    /\ rvStatus = 0
    /\ IF rvQuery.location = None \/ rvQuery.startDate = None \/ rvQuery.endDate = None
       THEN rvPc' = "done" /\ rvStatus' = 400 /\ UNCHANGED rvReads
       ELSE IF rvQuery.location[1] \notin Locations
       THEN rvPc' = "done" /\ rvStatus' = 400 /\ UNCHANGED rvReads
       ELSE rvPc' = "isConnected" /\ rvReads' = rvReads + 1 /\ UNCHANGED rvStatus
    /\ UNCHANGED <<rvQuery, rvCalls>>
    /\ RevenueUnchanged

\* the period fetches are started: each getRevenueSummary calls qbRequest,
\* which reads the token table and sends one report request; with no period
\* Promise.all resolves at once and the handler answers 200 with no data
StartFetches(periods) ==
    IF Len(periods) = 0
    THEN rvPc' = "done" /\ rvStatus' = 200 /\ UNCHANGED <<rvReads, rvCalls>>
    ELSE /\ rvPc' = "fetch"
         /\ rvReads' = rvReads + Len(periods)
         /\ rvCalls' = rvCalls + Len(periods)
         /\ UNCHANGED rvStatus

\* isConnected returns: false is answered with 401, a throw of
\* getValidTokens with 500; true starts getRevenueByPeriod
RevenueIsConnectedReturns(outcome) ==
    /\ rvPc = "isConnected"
    /\ IF outcome = "false"
       THEN rvPc' = "done" /\ rvStatus' = 401 /\ UNCHANGED <<rvReads, rvCalls>>
       ELSE IF outcome = "threw"
       THEN rvPc' = "done" /\ rvStatus' = 500 /\ UNCHANGED <<rvReads, rvCalls>>
       ELSE StartFetches(PeriodsOfQuery(rvQuery))
    /\ UNCHANGED rvQuery
    /\ RevenueUnchanged

\* getRevenueByPeriod returns or throws
RevenueFetchReturns(threw) ==
    /\ rvPc = "fetch"
    /\ rvPc' = "done"
    /\ rvStatus' = IF threw THEN 500 ELSE 200
    /\ UNCHANGED <<rvQuery, rvReads, rvCalls>>
    /\ RevenueUnchanged

NextRevenue ==
    \/ RevenueGet
    \/ \E o \in {"true", "false", "threw"} : RevenueIsConnectedReturns(o)
    \/ \E t \in BOOLEAN : RevenueFetchReturns(t)

SpecRevenue == InitRevenue /\ [][NextRevenue]_vars

----------------------------------------------------------------------------
(* GET /api/quickbooks/status: getConnectionStatus runs isConnected for    *)
(* the three locations under one Promise.all, then the handler calls       *)
(* getValidTokens once more for every location reported connected          *)

\* a location when the request arrives: no row; a row written 30 minutes
\* ago; a row written 58 minutes ago, inside the buffer; such a row whose
\* refresh token the provider has revoked
LocationStates == {"absent", "fresh", "stale", "revoked"}

StatusRowOf(l, state) ==
    PastRow(PastConnect[l].n, l, PastConnect[l].realm,
            StartNow - (IF state = "fresh" THEN 30 ELSE 58) * 60 * 1000)

\* what can fail in a getValidTokens call besides the refresh
TokenFailures == {"none", "select", "store"}

\* the refresh of getValidTokens for `tokens` and the storeTokens after it
Refreshed(rows, accepted, n, tokens, t, fail) ==
    LET refreshed == [refreshAccessToken(n, tokens.location, t)
                         EXCEPT !.realm_id = tokens.realm_id]
    IN  [kind     |-> IF fail = "store" THEN "threw" ELSE "tokens",
         tokens   |-> IF fail = "store" THEN NoTokens ELSE refreshed,
         rows     |-> IF fail = "store" THEN rows
                      ELSE Upsert(rows, RowOfTokens(refreshed, t)),
         accepted |-> (accepted \ {tokens.refresh_token})
                          \cup {refreshed.refresh_token},
         n        |-> n + 1]

\* one getValidTokens(location) call from its select to its return, with
\* the table `rows`, the refresh tokens `accepted` by the provider and the
\* number n of the next pair: null when the select fails or finds no single
\* row; the row's tokens when they are outside the buffer; otherwise the
\* refresh, which throws when the token endpoint rejects it, and the
\* storeTokens, which throws when the upsert fails
getValidTokensResult(rows, accepted, n, location, t, fail) ==
    LET selected == SelectLocation(rows, location)
        same == [kind |-> "null", tokens |-> NoTokens, rows |-> rows,
                 accepted |-> accepted, n |-> n]
    IN  IF fail = "select" \/ Cardinality(selected) # 1 THEN same
        ELSE IF ~NeedsRefresh(TokensOfRow(CHOOSE r \in selected : TRUE), t)
        THEN [same EXCEPT !.kind = "tokens",
                          !.tokens = TokensOfRow(CHOOSE r \in selected : TRUE)]
        ELSE IF (CHOOSE r \in selected : TRUE).refresh_token \notin accepted
        THEN [same EXCEPT !.kind = "threw"]
        ELSE Refreshed(rows, accepted, n, TokensOfRow(CHOOSE r \in selected : TRUE),
                       t, fail)

InitStatus ==
    /\ UsersIdle
    /\ SumIdle
    /\ RevIdle
    /\ GateIdle
    /\ PeriodsIdle
    /\ ExtractIdle
    /\ RouteIdle
    /\ now = StartNow
    /\ \E states \in [Locations -> LocationStates] :
          /\ store = {StatusRowOf(l, states[l]) : l \in {k \in Locations : states[k] # "absent"}}
          /\ valid = {RefreshToken(PastConnect[l].n) :
                         l \in {k \in Locations : states[k] \in {"fresh", "stale"}}}
    /\ nextTok = Cardinality(Locations) + 1
    /\ calls = [c \in Calls |-> IdleCall]
    /\ cb = IdleCallback
    /\ disconnected = [l \in Locations |-> FALSE]
    /\ stReq = IdleStatusRequest
    /\ stResp = NoStatusResponse

StatusUnchanged ==
    UNCHANGED <<periodVars, extractVars, routeVars, sumVars, revVars, gateVars,
                userVars, now, calls, cb, disconnected>>

\* the error response of the handler's catch block
StatusError == [code |-> 500, status |-> <<>>, details |-> <<>>]

\* the handler calls getConnectionStatus, which starts the three isConnected
StatusGet ==
    /\ stReq.pc = "idle"
    /\ stResp.code = 0
    /\ stReq' = [stReq EXCEPT !.pc = "all", !.pending = Locations]
    /\ UNCHANGED <<stResp, store, valid, nextTok>>
    /\ StatusUnchanged

\* the isConnected of a location settles.  A throw of getValidTokens rejects
\* the Promise.all, getConnectionStatus rejects and the handler's catch
\* answers 500; the other isConnected calls go on but nothing reads them.
\* Otherwise status[location] is set, and when all three are set the
\* handler's loop starts
IsConnectedSettles(location, fail) ==
    /\ location \in stReq.pending
    /\ LET got == getValidTokensResult(store, valid, nextTok, location, now, fail)
       IN  /\ store' = got.rows
           /\ valid' = got.accepted
           /\ nextTok' = got.n
           /\ IF stReq.pc # "all"
              THEN /\ stReq' = [stReq EXCEPT !.pending = @ \ {location}]
                   /\ UNCHANGED stResp
              ELSE IF got.kind = "threw"
              THEN /\ stReq' = [stReq EXCEPT !.pc = "done",
                                              !.pending = @ \ {location}]
                   /\ stResp' = StatusError
              ELSE /\ stReq' = [stReq EXCEPT
                         !.pc = IF stReq.pending = {location} THEN "details" ELSE "all",
                         !.pending = @ \ {location},
                         !.status = Append(@, <<location, got.kind = "tokens">>)]
                   /\ UNCHANGED stResp
    /\ StatusUnchanged

\* one turn of the loop over Object.keys(status): for a location reported
\* connected getValidTokens is awaited again, and its throw is answered with
\* 500; after the last key the handler answers with status and details
DetailsStep(fail) ==
    /\ stReq.pc = "details"
    /\ IF Len(stReq.details) = Len(stReq.status)
       THEN /\ stReq' = [stReq EXCEPT !.pc = "done"]
            /\ stResp' = [code |-> 200, status |-> stReq.status,
                           details |-> stReq.details]
            /\ UNCHANGED <<store, valid, nextTok>>
       ELSE LET entry == stReq.status[Len(stReq.details) + 1]
                got == getValidTokensResult(store, valid, nextTok, entry[1], now, fail)
            IN  IF ~entry[2]
                THEN /\ stReq' = [stReq EXCEPT
                           !.details = Append(@, [location |-> entry[1],
                                                  connected |-> FALSE,
                                                  realmId |-> None])]
                     /\ UNCHANGED <<stResp, store, valid, nextTok>>
                ELSE /\ store' = got.rows
                     /\ valid' = got.accepted
                     /\ nextTok' = got.n
                     /\ IF got.kind = "threw"
                        THEN /\ stReq' = [stReq EXCEPT !.pc = "done"]
                             /\ stResp' = StatusError
                        ELSE /\ stReq' = [stReq EXCEPT
                                   !.details = Append(@,
                                       [location |-> entry[1], connected |-> TRUE,
                                        realmId |-> IF got.kind = "tokens"
                                                    THEN Some(got.tokens.realm_id)
                                                    ELSE None])]
                             /\ UNCHANGED stResp
    /\ StatusUnchanged

NextStatus ==
    \/ StatusGet
    \/ \E l \in Locations, f \in TokenFailures : IsConnectedSettles(l, f)
    \/ \E f \in TokenFailures : DetailsStep(f)

SpecStatus == InitStatus /\ [][NextStatus]_vars

----------------------------------------------------------------------------
(* The authentication middleware, in its two revisions: "presence" only    *)
(* looks whether the medrock_session cookie has a value, "validating" also *)
(* decodes it and checks its expiry.  Paths are sequences of characters.   *)

EXCLUDED_PREFIXES == {<<"/", "_", "n", "e", "x", "t">>,
                      <<"/", "f", "a", "v", "i", "c", "o", "n", ".", "i", "c", "o">>,
                      <<"/", "p", "u", "b", "l", "i", "c">>}

PUBLIC_ROUTES == {<<"/", "a", "u", "t", "h", "/", "l", "o", "g", "i", "n">>,
                  <<"/", "a", "p", "i", "/", "h", "e", "a", "l", "t", "h">>,
                  <<"/", "t", "e", "r", "m", "s">>,
                  <<"/", "p", "r", "i", "v", "a", "c", "y">>}

SELF_AUTH_ROUTES == {<<"/", "a", "p", "i", "/", "c", "o", "u", "p", "o", "n", "s">>}

\* String.prototype.startsWith
StartsWith(text, prefix) ==
    /\ Len(prefix) <= Len(text)
    /\ SubSeq(text, 1, Len(prefix)) = prefix

IsExcluded(pathname) == \E prefix \in EXCLUDED_PREFIXES : StartsWith(pathname, prefix)

IsPublic(pathname) ==
    \E route \in PUBLIC_ROUTES :
        pathname = route \/ StartsWith(pathname, Append(route, "/"))

IsSelfAuth(pathname) == \E route \in SELF_AUTH_ROUTES : StartsWith(pathname, route)

Pathnames ==
    {<<"/">>,
     <<"/", "d", "a", "s", "h", "b", "o", "a", "r", "d">>,
     <<"/", "_", "n", "e", "x", "t", "/", "s", "t", "a", "t", "i", "c", "/", "a", "p", "p", ".", "j", "s">>,
     <<"/", "f", "a", "v", "i", "c", "o", "n", ".", "i", "c", "o">>,
     <<"/", "p", "u", "b", "l", "i", "c", "/", "l", "o", "g", "o", ".", "p", "n", "g">>,
     <<"/", "p", "u", "b", "l", "i", "c", "i", "t", "y">>,
     <<"/", "a", "u", "t", "h", "/", "l", "o", "g", "i", "n">>,
     <<"/", "a", "u", "t", "h", "/", "l", "o", "g", "i", "n", "/", "c", "a", "l", "l", "b", "a", "c", "k">>,
     <<"/", "a", "u", "t", "h", "/", "l", "o", "g", "i", "n", "x">>,
     <<"/", "a", "p", "i", "/", "h", "e", "a", "l", "t", "h">>,
     <<"/", "t", "e", "r", "m", "s">>,
     <<"/", "p", "r", "i", "v", "a", "c", "y">>,
     <<"/", "a", "p", "i", "/", "c", "o", "u", "p", "o", "n", "s">>,
     <<"/", "a", "p", "i", "/", "c", "o", "u", "p", "o", "n", "s", "-", "a", "d", "m", "i", "n">>,
     <<"/", "a", "p", "i", "/", "q", "u", "i", "c", "k", "b", "o", "o", "k", "s", "/", "s", "t", "a", "t", "u", "s">>}

\* Math.floor(Date.now() / 1000) when the middleware runs
GateNowSeconds == 1000

\* the medrock_session cookie by what its value decodes to: absent; present
\* with an empty value; base64 JSON with or without `at` and `exp`; a JWT of
\* three parts with or without exp; any other text
Cookies ==
    {NoCookie, [NoCookie EXCEPT !.present = TRUE, !.format = "empty"],
     [NoCookie EXCEPT !.present = TRUE]}
    \cup {[present |-> TRUE, format |-> "json", at |-> a, exp |-> e] :
             a \in BOOLEAN,
             e \in {None, Some(GateNowSeconds - 6), Some(GateNowSeconds - 5),
                     Some(GateNowSeconds + 3600)}}
    \cup {[present |-> TRUE, format |-> "jwt", at |-> FALSE, exp |-> e] :
             e \in {None, Some(GateNowSeconds - 6), Some(GateNowSeconds + 3600)}}

\* sessionCookie?.value is truthy
HasCookieValue(cookie) == cookie.present /\ cookie.format # "empty"

\* validateSessionCookie: None for null, otherwise Some(expired)
validateSessionCookie(cookie, nowSeconds) ==
    IF cookie.format = "json" /\ cookie.at /\ cookie.exp # None
    THEN Some(cookie.exp[1] < nowSeconds - 5)
    ELSE IF cookie.format = "jwt"
    THEN Some(IF cookie.exp # None THEN cookie.exp[1] < nowSeconds - 5 ELSE FALSE)
    ELSE None

CheckStatuses == {200, 204, 401, 403, 404, 500, 503}

InitGate ==
    /\ UsersIdle
    /\ SumIdle
    /\ RevIdle
    /\ StatusIdle
    /\ PeriodsIdle
    /\ ExtractIdle
    /\ TokensIdle
    /\ RouteIdle
    /\ mwReq \in {[revision |-> r, pathname |-> p, devSkip |-> d, cookie |-> c,
                    pc |-> "idle", check |-> NoCheck] :
                       r \in {"presence", "validating"}, p \in Pathnames,
                       d \in BOOLEAN, c \in Cookies}
    /\ mwResp = ""

GateUnchanged ==
    UNCHANGED <<periodVars, tokenVars, extractVars, routeVars, sumVars, revVars,
                statusVars, userVars>>

\* what the middleware returns before the access check, "" when it goes on
\* to the fetch
BeforeCheck(request) ==
    IF IsExcluded(request.pathname) THEN "next"
    ELSE IF IsPublic(request.pathname) THEN "next"
    ELSE IF IsSelfAuth(request.pathname) THEN "next"
    ELSE IF request.devSkip THEN "next"
    ELSE IF ~HasCookieValue(request.cookie) THEN "redirect"
    ELSE IF /\ request.revision = "validating"
            /\ \/ validateSessionCookie(request.cookie, GateNowSeconds) = None
               \/ validateSessionCookie(request.cookie, GateNowSeconds) = Some(TRUE)
    THEN "redirect"
    ELSE ""

\* the middleware runs up to its return or to the fetch of the access check
MiddlewareRuns ==
    /\ mwReq.pc = "idle"
    /\ mwResp = ""
    /\ mwResp' = BeforeCheck(mwReq)
    /\ mwReq' = [mwReq EXCEPT !.pc = IF BeforeCheck(mwReq) = "" THEN "check" ELSE "done"]
    /\ GateUnchanged

\* the access check throwing answered with 503
AccessCheckThrows_FailClosed ==
    /\ mwReq.pc = "check"
    /\ mwReq' = [mwReq EXCEPT !.pc = "done", !.check = [NoCheck EXCEPT !.made = TRUE,
                                                                      !.threw = TRUE]]
    /\ mwResp' = "503"
    /\ GateUnchanged

\* the access check answers: 403 is answered with the 403 page, 401 with
\* the redirect to the login page; any other status lets the request through
AccessCheckReturns(status) ==
    /\ mwReq.pc = "check"
    /\ mwReq' = [mwReq EXCEPT !.pc = "done", !.check = [NoCheck EXCEPT !.made = TRUE,
                                                                      !.status = status]]
    /\ mwResp' = IF status = 403 THEN "403"
                 ELSE IF status = 401 THEN "redirect"
                 ELSE "next"
    /\ GateUnchanged

\* the fetch of the access check throws: the catch block logs and the request
\* proceeds
AccessCheckThrows ==
    /\ mwReq.pc = "check"
    /\ mwReq' = [mwReq EXCEPT !.pc = "done", !.check = [NoCheck EXCEPT !.made = TRUE,
                                                                      !.threw = TRUE]]
    /\ mwResp' = "next"
    /\ GateUnchanged

NextGate ==
    \/ MiddlewareRuns
    \/ \E status \in CheckStatuses : AccessCheckReturns(status)
    \/ AccessCheckThrows

SpecGate == InitGate /\ [][NextGate]_vars

----------------------------------------------------------------------------
(* createUser: the calls of an administrator, one after the other.  Auth   *)
(* keeps the email of a user in lower case and refuses a second user with  *)
(* the same email; user_profiles keeps the email as it was typed.          *)

MaxCreates == 2

TypedEmails == {Email("bob", FALSE), Email("bob", TRUE), Email("amy", FALSE)}

InitUsers ==
    /\ SumIdle
    /\ RevIdle
    /\ StatusIdle
    /\ GateIdle
    /\ PeriodsIdle
    /\ ExtractIdle
    /\ TokensIdle
    /\ RouteIdle
    /\ authUsers = {}
    /\ profiles = {}
    /\ cu = IdleCreate

UsersUnchanged ==
    UNCHANGED <<periodVars, tokenVars, extractVars, routeVars, sumVars, revVars,
                statusVars, gateVars>>

\* every auth user has a profile row and every profile row an auth user
Paired(users, rows) == {u.id : u \in users} = {r.id : r \in rows}

\* Auth has a user with the email
Registered(users, email) == \E u \in users : u.email = toLowerCase(email)

\* the call has thrown or returned
Returns(call, result) == [call EXCEPT !.pc = "done", !.result = result]

\* createUser is called with valid form data by an administrator: the
\* select of user_profiles by email is issued
CreateUserCalled(email) ==
    /\ cu.pc \in {"idle", "done"}
    /\ cu.count < MaxCreates
    /\ cu' = [IdleCreate EXCEPT !.pc = "select", !.email = email,
                                 !.pairedBefore = Paired(authUsers, profiles),
                                 !.count = cu.count + 1, !.nextId = cu.nextId]
    /\ UNCHANGED <<authUsers, profiles>>
    /\ UsersUnchanged

\* the select returns; its error is not read.  .single() gives data only
\* for exactly one row with the email as typed
ProfileSelectReturns(dbError) ==
    /\ cu.pc = "select"
    /\ LET existingProfile ==
               ~dbError /\ Cardinality({r \in profiles : r.email = cu.email}) = 1
       IN  cu' = IF existingProfile THEN Returns(cu, "exists")
                 ELSE [cu EXCEPT !.pc = "create"]
    /\ UNCHANGED <<authUsers, profiles>>
    /\ UsersUnchanged

\* auth.admin.createUser returns, at the first attempt or at the retry:
\* 'already been registered' when Auth has the email, otherwise the new user
\* or another error
AuthCreateReturns(otherError) ==
    /\ cu.pc = "create"
    /\ IF Registered(authUsers, cu.email)
       THEN /\ cu' = IF cu.retried THEN Returns(cu, "failed")
                      ELSE [cu EXCEPT !.pc = "list"]
            /\ UNCHANGED authUsers
       ELSE IF otherError
       THEN /\ cu' = Returns(cu, "failed")
            /\ UNCHANGED authUsers
       ELSE /\ authUsers' = authUsers \cup {[id |-> cu.nextId,
                                              email |-> toLowerCase(cu.email)]}
            /\ cu' = [cu EXCEPT !.pc = "insert", !.userId = cu.nextId,
                                 !.nextId = cu.nextId + 1]
    /\ UNCHANGED profiles
    /\ UsersUnchanged

\* auth.admin.listUsers returns: the user whose email equals the typed one
\* in lower case is taken for an orphan and its deleteUser is issued; with
\* no list or no such user the first error is thrown
ListUsersReturns(listError) ==
    /\ cu.pc = "list"
    /\ LET found == {u \in authUsers : toLowerCase(u.email) = toLowerCase(cu.email)}
       IN  cu' = IF listError \/ found = {} THEN Returns(cu, "failed")
                 ELSE [cu EXCEPT !.pc = "deleteOrphan",
                                 !.orphanId = (CHOOSE u \in found : TRUE).id]
    /\ UNCHANGED <<authUsers, profiles>>
    /\ UsersUnchanged

\* the deleteUser of the user taken for an orphan returns; its result is not
\* read.  Auth deletes the user, alone or with its profile row, or refuses;
\* then the creation is retried
DeleteOrphanReturns(outcome) ==
    /\ cu.pc = "deleteOrphan"
    /\ authUsers' = IF outcome = "refused" THEN authUsers
                    ELSE {u \in authUsers : u.id # cu.orphanId}
    /\ profiles' = IF outcome = "cascade"
                   THEN {r \in profiles : r.id # cu.orphanId}
                   ELSE profiles
    /\ cu' = [cu EXCEPT !.pc = "create", !.retried = TRUE,
                         !.deletedProfiled =
                             /\ outcome # "refused"
                             /\ \E r \in profiles : r.id = cu.orphanId]
    /\ UsersUnchanged

\* the insert into user_profiles returns: on success createUser returns, on
\* an error the deleteUser of the user just created is issued
ProfileInsertReturns(profileError) ==
    /\ cu.pc = "insert"
    /\ IF profileError
       THEN /\ cu' = [cu EXCEPT !.pc = "rollback"]
            /\ UNCHANGED profiles
       ELSE /\ profiles' = profiles \cup {[id |-> cu.userId, email |-> cu.email]}
            /\ cu' = Returns(cu, "success")
    /\ UNCHANGED authUsers
    /\ UsersUnchanged

\* the deleteUser after the failed insert returns; its result is not read,
\* and createUser throws
RollbackReturns(refused) ==
    /\ cu.pc = "rollback"
    /\ authUsers' = IF refused THEN authUsers
                    ELSE {u \in authUsers : u.id # cu.userId}
    /\ cu' = [Returns(cu, "failed") EXCEPT !.rollbackFailed = refused]
    /\ UNCHANGED profiles
    /\ UsersUnchanged

NextUsers ==
    \/ \E email \in TypedEmails : CreateUserCalled(email)
    \/ \E e \in BOOLEAN : ProfileSelectReturns(e)
    \/ \E e \in BOOLEAN : AuthCreateReturns(e)
    \/ \E e \in BOOLEAN : ListUsersReturns(e)
    \/ \E o \in {"deleted", "cascade", "refused"} : DeleteOrphanReturns(o)
    \/ \E e \in BOOLEAN : ProfileInsertReturns(e)
    \/ \E r \in BOOLEAN : RollbackReturns(r)

SpecUsers == InitUsers /\ [][NextUsers]_vars

----------------------------------------------------------------------------
(* Properties of the period bucketer                                       *)

\* the day number of a "YYYY-MM-DD" string
DayOf(s) == DayNumber(s[1], s[2] - 1, s[3])

\* the first day of the unit a label names
FirstDayOfUnit(label) ==
    IF label[1] = "Y" THEN <<label[2], 1, 1>>
    ELSE IF label[1] = "Q" THEN <<label[2], 3 * (label[3] - 1) + 1, 1>>
    ELSE <<label[2], label[3], 1>>

\* C1: for start_date <= end_date the windows returned by generatePeriods
\* are in ascending order, each has start <= end, each window after the
\* first starts on the day after the previous window's end, the first
\* window starts at start_date and the last window ends at end_date.
C1_WindowsPartitionRange ==
    gpDone =>
        /\ Len(gpPeriods) >= 1
        /\ gpPeriods[1].start = gpStart
        /\ gpPeriods[Len(gpPeriods)].end = gpEnd
        /\ \A i \in 1..Len(gpPeriods) :
               DayOf(gpPeriods[i].start) <= DayOf(gpPeriods[i].end)
        /\ \A i \in 2..Len(gpPeriods) :
               DayOf(gpPeriods[i].start) = DayOf(gpPeriods[i - 1].end) + 1

\* C2: the first window starts at start_date even when that is not the
\* first day of its unit, every later window starts on the first day of the
\* unit its label names, and monthly 2024-01-15 .. 2024-03-10 gives three
\* windows from 2024-01-15 to 2024-03-10.
C2_FirstStartAndUnitStarts ==
    gpDone =>
        /\ Len(gpPeriods) >= 1
        /\ gpPeriods[1].start = gpStart
        /\ \A i \in 2..Len(gpPeriods) :
               gpPeriods[i].start = FirstDayOfUnit(gpPeriods[i].label)
        /\ (gpGran = "monthly" /\ gpStart = <<2024, 1, 15>> /\ gpEnd = <<2024, 3, 10>>)
               => /\ Len(gpPeriods) = 3
                  /\ gpPeriods[1].start = <<2024, 1, 15>>
                  /\ gpPeriods[3].end = <<2024, 3, 10>>

\* the ledger months (year, month) a window touches: the months of its two
\* end points and every month between them
MonthsOfWindow(w) ==
    {ym \in ((MinYear - 1)..(MaxYear + 1)) \X (1..12) :
        \/ ym = <<w.start[1], w.start[2]>>
        \/ ym = <<w.end[1], w.end[2]>>
        \/ /\ DayOf(w.start) <= DayNumber(ym[1], ym[2] - 1, 1)
           /\ DayNumber(ym[1], ym[2] - 1, 1) <= DayOf(w.end)}

\* C3: every window lies in the calendar unit its label names: for every
\* ledger month (year, month) of the window, getPeriodKey(year, month,
\* granularity) equals the window's label.
C3_LabelIsPeriodKeyOfWindow ==
    gpDone =>
        \A i \in 1..Len(gpPeriods) :
            \A ym \in MonthsOfWindow(gpPeriods[i]) :
                getPeriodKey(ym[1], ym[2], gpGran) = gpPeriods[i].label

----------------------------------------------------------------------------
(* Properties of the token store and of qbRequest                          *)

\* the calls that hold the credential read by getValidTokens
HoldsTokens(c) == calls[c].pc \in {"refresh", "store", "report"}

\* C4: getValidTokens refreshes the stored credential if and only if its
\* expires_at is less than now + 5 minutes: a credential expiring 2 minutes
\* from now is refreshed before it is returned, one expiring 10 minutes from
\* now is returned as stored with no request to the token endpoint.
C4_RefreshIffInsideBuffer ==
    \A c \in Calls :
        HoldsTokens(c) =>
            LET call == calls[c]
                left == call.tokens.expires_at - call.checkedAt
            IN  /\ (call.refreshSent = 1) <=> (left < 5 * 60 * 1000)
                /\ call.refreshSent \in {0, 1}
                /\ (left = 2 * 60 * 1000 /\ call.returned)
                       => (call.refreshSent = 1 /\ call.ret = call.refreshed
                           /\ call.ret.access_token # call.tokens.access_token)
                /\ left = 10 * 60 * 1000
                       => (call.refreshSent = 0 /\ call.returned /\ call.ret = call.tokens)

C4_Witness ==
    \E c \in Calls :
        /\ calls[c].pc = "report"
        /\ calls[c].refreshSent = 0
        /\ calls[c].tokens.expires_at - calls[c].checkedAt = 10 * 60 * 1000
        /\ calls[c].ret = calls[c].tokens

\* C5: for a stored credential whose expires_at is inside the 5 minute
\* buffer, one call of getValidTokens sends exactly one refresh request and
\* the credential it returns expires strictly later than the original.
C5_OneRefreshLaterExpiry ==
    \A c \in Calls :
        /\ calls[c].refreshSent <= 1
        /\ (HoldsTokens(c)
              /\ calls[c].tokens.expires_at < calls[c].checkedAt + 5 * 60 * 1000)
               => /\ calls[c].refreshSent = 1
                  /\ calls[c].returned
                         => calls[c].ret.expires_at > calls[c].tokens.expires_at

C5_Witness ==
    \E c \in Calls :
        /\ calls[c].pc = "report"
        /\ calls[c].refreshSent = 1
        /\ calls[c].tokens.expires_at - calls[c].checkedAt = 2 * 60 * 1000
        /\ calls[c].ret.expires_at > calls[c].tokens.expires_at

\* C6: a report request never carries a refreshed access token that was not
\* persisted: the upsert of the refreshed credential has succeeded before
\* the report request of the call is sent, and when storeTokens fails no
\* credential is returned and no report request is sent.
C6_PersistBeforeReport ==
    \A c \in Calls :
        /\ (calls[c].reportSent >= 1 /\ calls[c].refreshSent >= 1)
               => calls[c].stored = 1
        /\ (calls[c].pc = "report" /\ calls[c].refreshSent >= 1)
               => /\ calls[c].bearer = calls[c].refreshed.access_token
                  /\ calls[c].ret = calls[c].refreshed
        /\ calls[c].result = "StoreFailed"
               => /\ ~calls[c].returned
                  /\ calls[c].reportSent = 0
                  /\ calls[c].stored = 0

C6_Witness ==
    \E c \in Calls :
        /\ calls[c].pc = "report"
        /\ calls[c].refreshSent = 1
        /\ calls[c].stored = 1
        /\ RowOfTokens(calls[c].refreshed, now) \in store

\* C7: when the token endpoint rejects a refresh (it answers without issuing
\* a pair), getValidTokens fails with the refresh error, it returns no
\* credential, the call sends no report request and the step leaves the
\* table unchanged.
C7_RejectedRefreshFails ==
    /\ [][\A c \in Calls :
            (calls[c].pc = "refresh" /\ calls'[c] # calls[c] /\ nextTok' = nextTok)
                => /\ calls'[c].pc = "done"
                   /\ calls'[c].result = "RefreshFailed"
                   /\ ~calls'[c].returned
                   /\ calls'[c].reportSent = 0
                   /\ store' = store]_vars
    /\ [](\A c \in Calls :
            calls[c].result = "RefreshFailed"
                => /\ ~calls[c].returned
                   /\ calls[c].reportSent = 0
                   /\ calls[c].stored = 0)

C7_Witness ==
    \E c \in Calls :
        /\ calls[c].result = "RefreshFailed"
        /\ calls[c].refreshSent = 1
        /\ SelectLocation(store, calls[c].location) # {}

\* C8: for a location with no stored credential getValidTokens returns null
\* without a refresh request, and qbRequest fails with the not-connected
\* error before any request is sent to the reporting API.
C8_NotConnected ==
    /\ [][\A c \in Calls :
            (/\ calls[c].pc = "select"
             /\ calls'[c] # calls[c]
             /\ SelectLocation(store, calls[c].location) = {})
                => /\ calls'[c].pc = "done"
                   /\ calls'[c].result = "NotConnected"
                   /\ ~calls'[c].returned
                   /\ calls'[c].refreshSent = 0
                   /\ calls'[c].reportSent = 0]_vars
    /\ [](\A c \in Calls :
            calls[c].result = "NotConnected"
                => /\ calls[c].refreshSent = 0
                   /\ calls[c].reportSent = 0)

C8_Witness ==
    \E c \in Calls :
        /\ calls[c].result = "NotConnected"
        /\ SelectLocation(store, calls[c].location) = {}

\* C9: the table holds at most one row per location, and every write of
\* storeTokens or disconnect touches the row of one location only: the rows
\* of the other locations are the same before and after it.
C9_OneRowPerLocation ==
    /\ [](\A l \in Locations : Cardinality(SelectLocation(store, l)) <= 1)
    /\ [](\A r \in store : r.location \in Locations)
    /\ [][store' # store =>
            \E l \in Locations :
                /\ DeleteLocation(store', l) = DeleteLocation(store, l)
                /\ Cardinality(SelectLocation(store', l)) <= 1]_vars

C9_Witness ==
    /\ \A l \in Locations : Cardinality(SelectLocation(store, l)) = 1
    /\ \E r \in store :
          r.access_token \notin {AccessToken(PastConnect[l].n) : l \in Locations}

\* C10: after disconnect(location) has completed the table holds no
\* credential for that location until a new OAuth callback stores one, in
\* every interleaving with a getValidTokens refresh of the same location.
C10_DisconnectedStaysDisconnected ==
    \A l \in Locations : disconnected[l] => SelectLocation(store, l) = {}

\* C11: qbRequest fails, returning no report, for every response of the
\* reporting API that is not 2xx: a 401 is reported as Unauthorized, any other
\* status as an error that carries the status and the body; the report
\* request was sent once (no retry).
C11_NonOkResponseFails ==
    \A c \in Calls :
        (calls[c].pc = "done" /\ calls[c].response.status # 0
            /\ ~ResponseOk(calls[c].response.status)) =>
            /\ calls[c].result # "ok"
            /\ calls[c].reportSent = 1
            /\ IF calls[c].response.status = 401
               THEN calls[c].result = "Unauthorized"
               ELSE /\ calls[c].result = "QBApiError"
                    /\ calls[c].message[3] = calls[c].response.status
                    /\ calls[c].message[4] = calls[c].response.body

----------------------------------------------------------------------------
(* Properties of the report extractor                                      *)

\* row i is the first row of the report that satisfies P
FirstMatch(report, P(_), i) ==
    LET rows == RowsOfReport(report)
    IN  /\ i \in 1..Len(rows)
        /\ P(rows[i])
        /\ \A j \in 1..(i - 1) : ~P(rows[j])

\* the report has no row that satisfies P (so also when it has no rows), or
\* the first such row has no Summary or a Summary without ColData
NoSectionTotal(report, P(_)) ==
    LET rows == RowsOfReport(report)
    IN  \/ \A i \in 1..Len(rows) : ~P(rows[i])
        \/ \E i \in 1..Len(rows) :
              /\ FirstMatch(report, P, i)
              /\ \/ ~Has(rows[i].Summary)
                 \/ ~Has(rows[i].Summary[1].ColData)

\* C12: extractRevenueFromReport and extractCOGSFromReport never throw, and
\* return 0 for every report in which their section is missing, the rows are
\* missing or empty, or the section has no Summary row or no ColData.
C12_MissingSectionGivesZero ==
    exDone =>
        /\ ~exRevenue.threw
        /\ ~exCogs.threw
        /\ NoSectionTotal(exReport, IsIncomeSection) => exRevenue = Returned(Num(0))
        /\ NoSectionTotal(exReport, IsCOGSSection) => exCogs = Returned(Num(0))

\* a report whose income section has a Summary without ColData and whose
\* cost of goods sold section is missing has been extracted
C12_Witness ==
    /\ exDone
    /\ \E i \in 1..Len(RowsOfReport(exReport)) :
          /\ FirstMatch(exReport, IsIncomeSection, i)
          /\ RowsOfReport(exReport)[i].Summary = NoColData
    /\ \A i \in 1..Len(RowsOfReport(exReport)) :
          ~IsCOGSSection(RowsOfReport(exReport)[i])
    /\ exRevenue = Returned(Num(0))
    /\ exCogs = Returned(Num(0))

\* the number a text of the model's reports stands for
NumberOfText(text) ==
    CASE text = TXT_1500 -> Num(1500)
      [] text = TXT_250_5 -> Frac(501, 2)
      [] text = TXT_Minus20 -> Num(-20)

\* the text of the last column of the Summary row of row i, as a sequence of
\* at most one text
LastSummaryText(report, i) ==
    LET row == RowsOfReport(report)[i]
    IN  IF ~Has(row.Summary) THEN None
        ELSE IF ~Has(row.Summary[1].ColData) THEN None
        ELSE LET cols == row.Summary[1].ColData[1]
             IN  IF Len(cols) = 0 THEN None
                 ELSE IF ~Has(cols[Len(cols)].value) THEN None
                 ELSE IF cols[Len(cols)].value[1] = <<>> THEN None
                 ELSE cols[Len(cols)].value

\* C13: when a row matches the income section, extractRevenueFromReport
\* returns the value of the last column of the Summary row of the first such
\* row in list order; extractCOGSFromReport does the same for the first row
\* that matches the cost of goods sold section.
C13_FirstSectionLastColumn ==
    exDone =>
        \A i \in 1..Len(RowsOfReport(exReport)) :
            /\ (FirstMatch(exReport, IsIncomeSection, i)
                    /\ Has(LastSummaryText(exReport, i))) =>
                  exRevenue = Returned(NumberOfText(LastSummaryText(exReport, i)[1]))
            /\ (FirstMatch(exReport, IsCOGSSection, i)
                    /\ Has(LastSummaryText(exReport, i))) =>
                  exCogs = Returned(NumberOfText(LastSummaryText(exReport, i)[1]))

\* a report with two income sections of different totals, the second one
\* also the only cost of goods sold section, has been extracted
C13_Witness ==
    /\ exDone
    /\ Len(RowsOfReport(exReport)) = 2
    /\ FirstMatch(exReport, IsIncomeSection, 1)
    /\ IsIncomeSection(RowsOfReport(exReport)[2])
    /\ FirstMatch(exReport, IsCOGSSection, 2)
    /\ LastSummaryText(exReport, 1) = Some(TXT_250_5)
    /\ LastSummaryText(exReport, 2) = Some(TXT_1500)
    /\ exRevenue = Returned(Frac(501, 2))
    /\ exCogs = Returned(Num(1500))

----------------------------------------------------------------------------
(* Properties of the reconciliation of the marketer-profitability route    *)

\* the request asked for one location (qbLocation is set)
SingleLocationPath ==
    Has(req.location) /\ req.location[1] # "all"

\* the rows of quickbooksComparison in the payload that was sent
ComparisonOfPayload ==
    IF resp.status = 200 /\ Has(resp.quickbooksComparison)
    THEN resp.quickbooksComparison[1] ELSE <<>>

\* v = a - b, and p = v / q * 100 (q not 0), on numbers that are not NaN:
\* each as one fraction in lowest terms
IsDifference(v, a, b) ==
    /\ ~v.nan /\ ~a.nan /\ ~b.nan
    /\ v = Frac(a.num * b.den - b.num * a.den, a.den * b.den)

IsPercentage(p, v, q) ==
    /\ ~p.nan /\ ~v.nan /\ ~q.nan
    /\ p = IF q.num > 0 THEN Frac(100 * v.num * q.den, v.den * q.num)
           ELSE Frac(-(100 * v.num * q.den), v.den * (-q.num))

ExternalLabels ==
    IF SingleLocationPath
    THEN {req.results[i].period : i \in 1..Len(req.results)}
    ELSE UNION {{req.results[i].data[j].period :
                    j \in 1..Len(req.results[i].data)} :
                i \in 1..Len(req.results)}

\* the request was answered with external data taken into account
Reconciled ==
    /\ req.pc = "done"
    /\ resp.status = 200
    /\ Has(resp.quickbooks)
    /\ resp.quickbooks[1].connected

\* the row of a full mismatch for a period group
IsFullMismatch(row, group) ==
    /\ row.period = group.period
    /\ row.internal_revenue = group.totals.total_pt_paid
    /\ row.quickbooks_revenue = Num(0)
    /\ row.quickbooks_cogs = Num(0)
    /\ row.quickbooks_gross_profit = Num(0)
    /\ row.variance = group.totals.total_pt_paid
    /\ row.variance_percentage = Num(0)

\* C15: for every period that has internal ledger data but no external entry
\* with the same label the request is answered (status 200) with a row that
\* has quickbooks_revenue = 0, quickbooks_cogs = 0, quickbooks_gross_profit
\* = 0, variance = internal_revenue and variance_percentage = 0
C15_InternalOnlyPeriodIsFullMismatch ==
    Reconciled =>
        \A i \in 1..Len(resp.periodGroups) :
            resp.periodGroups[i].period \notin ExternalLabels =>
                /\ \E j \in 1..Len(ComparisonOfPayload) :
                       ComparisonOfPayload[j].period = resp.periodGroups[i].period
                /\ \A j \in 1..Len(ComparisonOfPayload) :
                       ComparisonOfPayload[j].period = resp.periodGroups[i].period
                           => IsFullMismatch(ComparisonOfPayload[j],
                                             resp.periodGroups[i])

\* the ledger has 10000 for 2024-01 and no location returned an entry for
\* 2024-01: the row has variance 10000
C15_Witness ==
    /\ Reconciled
    /\ MonthLabel(2024, 1) \notin ExternalLabels
    /\ \E j \in 1..Len(ComparisonOfPayload) :
           /\ ComparisonOfPayload[j].period = MonthLabel(2024, 1)
           /\ ComparisonOfPayload[j].internal_revenue = Num(10000)
           /\ ComparisonOfPayload[j].quickbooks_revenue = Num(0)
           /\ ComparisonOfPayload[j].variance = Num(10000)
           /\ ComparisonOfPayload[j].variance_percentage = Num(0)

\* the labels of the ledger rows the query of the request selects
InternalLabels ==
    {getPeriodKey(row.year, row.month, req.granularity) :
        row \in {r \in LedgerTable :
                    QueryFilter(r, req.location, req.startDate, req.endDate)}}

\* label a is of a later period than label b (same granularity)
LaterLabel(a, b) ==
    \/ a[2] > b[2]
    \/ a[2] = b[2] /\ Len(a) = 3 /\ a[3] > b[3]

\* C16: quickbooksComparison has exactly one row for each internal period
\* group and no other row, in the order of periodGroups, which is newest
\* first; a period that only the external side returned has no row
C16_OneRowPerInternalPeriod ==
    Reconciled =>
        /\ Has(resp.quickbooksComparison)
        /\ Len(ComparisonOfPayload) = Len(resp.periodGroups)
        /\ \A i \in 1..Len(ComparisonOfPayload) :
               ComparisonOfPayload[i].period = resp.periodGroups[i].period
        /\ {resp.periodGroups[i].period : i \in 1..Len(resp.periodGroups)}
               = InternalLabels
        /\ \A i, j \in 1..Len(resp.periodGroups) :
               i < j => LaterLabel(resp.periodGroups[i].period,
                                   resp.periodGroups[j].period)

\* a payload with rows for two periods, newest first, and an external entry
\* for a third period that has no row
C16_Witness ==
    /\ Reconciled
    /\ Len(ComparisonOfPayload) = 2
    /\ LaterLabel(ComparisonOfPayload[1].period, ComparisonOfPayload[2].period)
    /\ \E l \in ExternalLabels :
           \A i \in 1..Len(ComparisonOfPayload) : ComparisonOfPayload[i].period # l

\* the entries with a label among the data of the locations: <<i, j>> is
\* item j of location i
ExternalItems(label) ==
    UNION {{<<i, j>> : j \in {k \in 1..Len(req.results[i].data) :
                                 req.results[i].data[k].period = label}} :
           i \in 1..Len(req.results)}

\* the sum of a figure over a set of entries, each entry once
RECURSIVE SumOfItems(_, _)
SumOfItems(items, figure) ==
    IF items = {} THEN Num(0)
    ELSE LET p == CHOOSE q \in items : TRUE
         IN  JsAdd(req.results[p[1]].data[p[2]][figure],
                   SumOfItems(items \ {p}, figure))

\* C17: when no location (or 'all') is requested, for every period label the
\* external revenue, cost_of_goods and gross_profit of the reconciliation are
\* the sums of those figures over the entries with that label of all
\* locations, each location's entry counted once
C17_SumsOverAllLocations ==
    (Reconciled /\ ~SingleLocationPath) =>
        \A i \in 1..Len(ComparisonOfPayload) :
            LET row == ComparisonOfPayload[i]
                items == ExternalItems(row.period)
            IN  /\ row.quickbooks_revenue = SumOfItems(items, "revenue")
                /\ row.quickbooks_cogs = SumOfItems(items, "cost_of_goods")
                /\ row.quickbooks_gross_profit = SumOfItems(items, "gross_profit")

\* two locations returned 1500 for 2024-01 and a third location returned
\* nothing: the row of 2024-01 has the external revenue 3000
C17_Witness ==
    /\ Reconciled
    /\ ~SingleLocationPath
    /\ Len(req.results) = 3
    /\ \E i \in 1..Len(ComparisonOfPayload) :
           /\ ComparisonOfPayload[i].period = MonthLabel(2024, 1)
           /\ Cardinality(ExternalItems(MonthLabel(2024, 1))) = 2
           /\ ComparisonOfPayload[i].quickbooks_revenue = Num(3000)
           /\ ComparisonOfPayload[i].quickbooks_cogs = Num(501)

\* the locations whose getRevenueByPeriod threw during the request
FailedLocations == {e.location : e \in req.errors}

\* the lists a location's getRevenueByPeriod can return for the request
ListsOfRequest ==
    {getRevenueByPeriod(b, req.startDate, req.endDate, req.granularity) :
        b \in Books}

\* C18: in getRevenueAllLocations a failure for one location does not abort
\* the aggregation: the results hold an empty list for the location that
\* failed and the list of every other connected location, and the
\* request is answered with the reconciliation of these results
C18_FailedLocationDoesNotAbort ==
    (~SingleLocationPath /\ req.errors # {}) =>
        /\ req.pc \in {"fetchAll", "done"}
        /\ \A l \in FailedLocations :
               /\ Cardinality({i \in 1..Len(req.results) :
                                  req.results[i].location = l}) = 1
               /\ \A i \in 1..Len(req.results) :
                      req.results[i].location = l => req.results[i].data = <<>>
        /\ \A i \in 1..Len(req.results) :
               req.results[i].location \notin FailedLocations
                   => req.results[i].data \in ListsOfRequest
        /\ req.pc = "done" =>
               /\ Reconciled
               /\ Has(resp.quickbooksComparison)
               /\ Len(req.results) = Cardinality({r.location : r \in store})
               /\ {req.results[i].location : i \in 1..Len(req.results)}
                      = {r.location : r \in store}

\* two of three connected locations failed and the third returned 1500 for
\* 2024-01: the request is answered and the row of 2024-01 has the external
\* revenue 1500
C18_Witness ==
    /\ ~SingleLocationPath
    /\ req.pc = "done"
    /\ Cardinality(FailedLocations) = 2
    /\ Len(req.results) = 3
    /\ \E i \in 1..Len(ComparisonOfPayload) :
           /\ ComparisonOfPayload[i].period = MonthLabel(2024, 1)
           /\ ComparisonOfPayload[i].quickbooks_revenue = Num(1500)

\* the payload carries the text of an error message: as its error, or as
\* the error or the message of `quickbooks`
PayloadCarries(message) ==
    \/ resp.error = Some(message)
    \/ /\ Has(resp.quickbooks)
       /\ \/ resp.quickbooks[1].error = Some(message)
          \/ resp.quickbooks[1].message = Some(message)

\* C19: when a location fails during a multi-location aggregation, the
\* payload of the request carries that location's error message next to the
\* partial result
C19_LocationErrorInPayload ==
    (~SingleLocationPath /\ req.pc = "done") =>
        \A e \in req.errors : PayloadCarries(e.message)

----------------------------------------------------------------------------
(* Properties of the response cache                                        *)

\* the call of getCachedQBData before the last one was for the same key,
\* with no setCachedQBData since, and both calls were made within
\* CACHE_TTL_MS of the insertion of the entry of that key
TwoGetsWithinTtl ==
    /\ Has(lastGet.prev)
    /\ Has(lastGet.prev[1].timestamp)
    /\ lastGet.prev[1].at - lastGet.prev[1].timestamp[1] <= CACHE_TTL_MS
    /\ lastGet.at - lastGet.prev[1].timestamp[1] <= CACHE_TTL_MS

\* C20: two consecutive calls of getCachedQBData with the same key, with no
\* setCachedQBData between them and both within 1 hour of the entry's
\* insertion, return the same payload, and the first call does not change
\* the cache
C20_GetTwiceSamePayload ==
    TwoGetsWithinTtl =>
        /\ Has(lastGet.data)
        /\ lastGet.data = lastGet.prev[1].data
        /\ ~lastGet.prev[1].changed
        /\ lastGet.timestamp = lastGet.prev[1].timestamp

\* the first call 30 minutes after the insertion and the second call 60
\* minutes after it: both return the payload that was inserted
C20_Witness ==
    /\ TwoGetsWithinTtl
    /\ lastGet.prev[1].at - lastGet.prev[1].timestamp[1] = CacheTickMs
    /\ lastGet.at - lastGet.prev[1].timestamp[1] = CACHE_TTL_MS
    /\ Has(lastGet.data)
    /\ lastGet.data[1] \in CachePayloads

\* the entry the last call of getCachedQBData found was older than
\* CACHE_TTL_MS
LastGetFoundExpired ==
    /\ Has(lastGet.key)
    /\ Has(lastGet.timestamp)
    /\ lastGet.at - lastGet.timestamp[1] > CACHE_TTL_MS

\* C21: getCachedQBData never returns an entry older than 1 hour: such an
\* entry is deleted and reported as a miss, and after a miss, for an expired
\* entry as for a key that was never set, the handler fetches: the key stays
\* out of the Map while the fetch runs, and the answer of a fetch that
\* returned is stored under the key with the time of the fetch
C21_ExpiredEntryIsMiss ==
    Has(lastGet.key) =>
        /\ Has(lastGet.data) <=> (Has(lastGet.timestamp) /\ ~LastGetFoundExpired)
        /\ LastGetFoundExpired => lastGet.changed
        /\ ~Has(lastGet.data) =>
               /\ req.pc \in {"locations", "fetchAll", "fetchOne", "done"}
               /\ req.pc # "done" => lastGet.key[1] \notin DOMAIN qbCache
               /\ req.pc = "done" =>
                      IF Reconciled
                      THEN /\ lastGet.key[1] \in DOMAIN qbCache
                           /\ qbCache[lastGet.key[1]] =
                                  [data |-> req.results, timestamp |-> now]
                      ELSE lastGet.key[1] \notin DOMAIN qbCache

\* an entry of 61 minutes was found, the fetch returned 250.50 for a period
\* of the ledger and the Map holds the new answer
C21_Witness ==
    /\ LastGetFoundExpired
    /\ lastGet.at - lastGet.timestamp[1] = 61 * 60 * 1000
    /\ req.pc = "done"
    /\ Reconciled
    /\ SingleLocationPath
    /\ qbCache[lastGet.key[1]].timestamp = now
    /\ \E i \in 1..Len(ComparisonOfPayload) :
           ComparisonOfPayload[i].quickbooks_revenue = Frac(501, 2)

\* the keys of the Map after the insert of the last setCachedQBData
KeysAfterInsert == DOMAIN lastSet.before \cup {lastSet.key[1]}

\* the keys whose entry was older than CACHE_TTL_MS at the last
\* setCachedQBData, the inserted entry not among them
ExpiredAtSet ==
    {k \in DOMAIN lastSet.before \ {lastSet.key[1]} :
        lastSet.at - lastSet.before[k].timestamp > CACHE_TTL_MS}

\* C22: setCachedQBData sweeps only when the Map holds more than 50 entries
\* after the insert; the sweep removes every entry older than 1 hour and no
\* entry within the TTL, and the entry just inserted survives
C22_SweepAboveFifty ==
    Has(lastSet.key) =>
        /\ lastSet.key[1] \in DOMAIN qbCache
        /\ qbCache[lastSet.key[1]].timestamp = lastSet.at
        /\ DOMAIN qbCache =
               IF Cardinality(KeysAfterInsert) > 50
               THEN KeysAfterInsert \ ExpiredAtSet
               ELSE KeysAfterInsert
        /\ \A k \in DOMAIN qbCache \ {lastSet.key[1]} :
               qbCache[k] = lastSet.before[k]

\* the insert made the Map hold 51 entries: the two entries of 61 minutes
\* were removed and the entries of exactly 60 minutes were kept
C22_Witness ==
    /\ Has(lastSet.key)
    /\ Cardinality(KeysAfterInsert) = 51
    /\ Cardinality(ExpiredAtSet) = 2
    /\ Cardinality(DOMAIN qbCache) = 49
    /\ \E k \in DOMAIN qbCache :
           lastSet.at - qbCache[k].timestamp = CACHE_TTL_MS

\* C28: the response cache only holds results of fetches that succeeded for
\* every location they cover: a request during which a location's fetch
\* failed stores no entry
C28_NoEntryAfterFailedFetch ==
    (req.pc = "done" /\ req.errors # {}) =>
        /\ lastSet = NoSet
        /\ \A k \in DOMAIN qbCache : qbCache[k].timestamp # now

----------------------------------------------------------------------------
(* Properties of the refresh in getValidTokens                             *)

\* the step in which the storeTokens of call c returns and getValidTokens
\* returns the refreshed credential
RefreshStored(c) ==
    /\ calls[c].pc = "store"
    /\ calls'[c].pc = "report"

\* C29: a refresh in getValidTokens changes access_token, refresh_token and
\* expires_at: the realm_id and the location of the credential it returns
\* and of the row it has stored are those of the row it had read, although
\* refreshAccessToken returns an empty realm_id
C29_RefreshKeepsRealmAndLocation ==
    [][\A c \in DOMAIN calls :
          RefreshStored(c) =>
              /\ refreshAccessToken(0, calls[c].location, now).realm_id = ""
              /\ calls'[c].ret.realm_id = calls[c].tokens.realm_id
              /\ calls'[c].ret.location = calls[c].tokens.location
              /\ calls'[c].ret.refresh_token # calls[c].tokens.refresh_token
              /\ \E r \in store' :
                     /\ SelectLocation(store', calls[c].tokens.location) = {r}
                     /\ r.realm_id = calls[c].tokens.realm_id
                     /\ r.refresh_token = calls'[c].ret.refresh_token
                     /\ r.access_token = calls'[c].ret.access_token
                     /\ getTime(r.expires_at) = calls'[c].ret.expires_at]_vars

\* a call has refreshed and stored the credential of a location whose row
\* has the realm_id realm-A: the credential returned and the row have it
C29_Witness ==
    \E c \in DOMAIN calls :
        /\ calls[c].pc = "report"
        /\ calls[c].stored = 1
        /\ calls[c].tokens.realm_id = "realm-A"
        /\ calls[c].ret.realm_id = "realm-A"
        /\ calls[c].ret.refresh_token # calls[c].tokens.refresh_token
        /\ \E r \in store :
               /\ r.location = calls[c].location
               /\ r.realm_id = "realm-A"
               /\ r.refresh_token = calls[c].ret.refresh_token

----------------------------------------------------------------------------
(* Properties of concurrent refreshes                                      *)

\* no storeTokens is in flight after a refresh, and none has failed
NoWritePendingOrFailed ==
    \A c \in DOMAIN calls :
        /\ calls[c].pc # "store"
        /\ calls[c].result # "StoreFailed"

\* the row of the location is the row `row` and no other
StoreHoldsExactly(rows, row) ==
    SelectLocation(rows, row.location) = {row}

----------------------------------------------------------------------------
(* Properties of the concurrent fetches                                    *)

\* the keys in the order of LOCATION_MAPPING
LocationsInOrder == <<"MedRock FL", "MedRock TN", "MedRock TX">>

\* C23: the values of the ComparisonRows do not depend on the order in which
\* the fetches of the locations completed: the aggregated revenue of the
\* period is the one obtained when the locations complete in the order of
\* LOCATION_MAPPING
C23_ValuesIndependentOfCompletionOrder ==
    arByPeriod # None =>
        arByPeriod = Some(AggregatedRevenue(arItems, LocationsInOrder, 3))

----------------------------------------------------------------------------
(* Properties of the revenue endpoint                                      *)

\* the range of a query is malformed: a date that is no date, or an end
\* before the start
MalformedRange(query) ==
    /\ query.startDate # None
    /\ query.endDate # None
    /\ \/ ~query.startDate[1].valid
       \/ ~query.endDate[1].valid
       \/ ~DateLE(query.startDate[1].ymd, query.endDate[1].ymd)

\* the input of a query is unusable
Unusable(query) ==
    \/ query.location = None
    \/ query.location[1] \notin Locations
    \/ query.startDate = None
    \/ query.endDate = None
    \/ MalformedRange(query)

\* C25: a request to the revenue endpoint with unusable input is answered
\* with a 4xx status, and no select of the token table and no report
\* request is made for it
C25_UnusableInputRejected ==
    (rvPc = "done" /\ Unusable(rvQuery)) =>
        /\ rvStatus \in 400..499
        /\ rvReads = 0
        /\ rvCalls = 0

----------------------------------------------------------------------------
(* Properties of the status endpoint                                       *)

\* C26: GET /api/quickbooks/status reports each of the three locations on
\* its own: whatever the token store does for one location, the request is
\* answered with 200 and an entry of status and of details for every
\* location
C26_StatusReportsEveryLocation ==
    stReq.pc = "done" =>
        /\ stResp.code = 200
        /\ {e[1] : e \in {stResp.status[i] : i \in 1..Len(stResp.status)}} = Locations
        /\ {stResp.details[i].location : i \in 1..Len(stResp.details)} = Locations

----------------------------------------------------------------------------
(* Properties of the middleware                                            *)

\* the request is subject to the gate: DEV_SKIP_AUTH is not set and the path
\* is neither excluded, public nor self-authenticating
Gated(request) ==
    /\ ~request.devSkip
    /\ ~IsExcluded(request.pathname)
    /\ ~IsPublic(request.pathname)
    /\ ~IsSelfAuth(request.pathname)

\* C27: a gated request proceeds only if it carries a medrock_session cookie
\* and the access check did not answer 401 or 403; without a cookie, or on
\* 401, it is redirected to the login page; on 403 it is answered with 403;
\* when the access check throws or answers another status that is not 2xx,
\* it proceeds
C27_GateFailsOpen ==
    (mwReq.pc = "done" /\ Gated(mwReq)) =>
        /\ mwResp = "next" =>
               /\ HasCookieValue(mwReq.cookie)
               /\ mwReq.check.made
               /\ mwReq.check.status \notin {401, 403}
        /\ ~HasCookieValue(mwReq.cookie) => (mwResp = "redirect" /\ ~mwReq.check.made)
        /\ mwReq.check.status = 401 => mwResp = "redirect"
        /\ mwReq.check.status = 403 => mwResp = "403"
        /\ mwReq.check.threw => mwResp = "next"
        /\ (mwReq.check.made /\ ~mwReq.check.threw
               /\ ~ResponseOk(mwReq.check.status)
               /\ mwReq.check.status \notin {401, 403}) => mwResp = "next"

\* a gated request with a cookie, in the revision that validates it, whose
\* access check threw, has proceeded
C27_Witness ==
    /\ mwReq.pc = "done"
    /\ Gated(mwReq)
    /\ mwReq.revision = "validating"
    /\ mwReq.cookie.format = "json"
    /\ mwReq.check.threw
    /\ mwResp = "next"

----------------------------------------------------------------------------
(* Properties of createUser                                                *)

\* C30: if every auth user had a profile row and every profile row an auth
\* user before a createUser call, the same holds when the call has returned
\* or thrown, and the call has not deleted an auth user that had a profile
\* row
C30_CreateUserKeepsPairs ==
    (cu.pc = "done" /\ cu.pairedBefore /\ ~cu.rollbackFailed) =>
        /\ Paired(authUsers, profiles)
        /\ ~cu.deletedProfiled

====
